---- MODULE Spec2Model ----
(***************************************************************************)
(* Model of the C# module runtime (ModuleRuntime): one process run of the  *)
(* dispatcher RunAsync, with type discovery, the registration handler, the *)
(* invocation handler (constructor-only calls, instantiation, field        *)
(* population, argument loading, invocation, awaiting, result encoding)    *)
(* and the engine's chaining of a returned module object into the parent   *)
(* state of the next call.                                                 *)
(***************************************************************************)
EXTENDS Integers, Sequences, FiniteSets, TLC

(***************************************************************************)
(* Bounds of the model.                                                    *)
(***************************************************************************)
\* number of RPC round trips that may fail in one process run
MaxFaults == 1
\* number of process runs the engine chains (a returned object becomes the
\* parent of the next call)
MaxRuns == 2

(***************************************************************************)
(* Names.  An identifier is its spelling with the first character lowered  *)
(* (s) and the class of that first character (c): "upper", "lower", or     *)
(* "none" for the empty string.  Ordinal comparison is record equality.    *)
(***************************************************************************)
Up(s) == [c |-> "upper", s |-> s]
Lo(s) == [c |-> "lower", s |-> s]
NoName == [c |-> "none", s |-> ""]

\* string.IsNullOrEmpty
IsNullOrEmpty(name) == name = NoName

\* Faulty variant: leaves the native casing
ToCamelCase_KeepCase(name) == name

\* ToCamelCase: lower the first character unless empty or already lower
ToCamelCase(name) ==
    IF IsNullOrEmpty(name) \/ name.c = "lower" THEN name ELSE [name EXCEPT !.c = "lower"]

(***************************************************************************)
(* Wire (JSON) values and native (CLR) values.                             *)
(***************************************************************************)
NoObj == [x \in {} |-> 0]

JNull == [k |-> "null", s |-> "", n |-> 0, o |-> NoObj]
JStr(x) == [k |-> "str", s |-> x, n |-> 0, o |-> NoObj]
JNum(i) == [k |-> "num", s |-> "", n |-> i, o |-> NoObj]
JObj(m) == [k |-> "obj", s |-> "", n |-> 0, o |-> m]

NNull == [t |-> "null", s |-> "", n |-> 0, ty |-> NoName, props |-> NoObj, of |-> ""]
NStr(x) == [t |-> "string", s |-> x, n |-> 0, ty |-> NoName, props |-> NoObj, of |-> ""]
NInt(i) == [t |-> "int", s |-> "", n |-> i, ty |-> NoName, props |-> NoObj, of |-> ""]
\* an instance of a user class: its CLR type name and its public properties
NObject(ty, props) == [t |-> "object", s |-> "", n |-> 0, ty |-> ty, props |-> props, of |-> ""]
\* a Task / ValueTask object that has not been awaited
NTask == [t |-> "task", s |-> "", n |-> 0, ty |-> NoName, props |-> NoObj, of |-> ""]
\* CancellationToken.None
NToken == [t |-> "token", s |-> "", n |-> 0, ty |-> NoName, props |-> NoObj, of |-> ""]
\* a member, or any other number, of an enum type
NEnum(type, number) == [t |-> "enum", s |-> "", n |-> number, ty |-> NoName, props |-> NoObj, of |-> type]
\* the handle Query.Load<Type>FromId returns for an id
NHandle(type, id) == [t |-> "remote", s |-> id, n |-> 0, ty |-> NoName, props |-> NoObj, of |-> type]

(***************************************************************************)
(* Exceptions and error messages.  A message is kept structured so that    *)
(* "the message names parameter p" is a comparison, not a substring test.  *)
(***************************************************************************)
Msg(kind, name, text) == [kind |-> kind, name |-> name, text |-> text]
Ex(m) == [Message |-> m, HasInner |-> FALSE, InnerMessage |-> m]
\* reflection wraps whatever the invoked member throws
TargetInvocationException(inner) ==
    [Message |-> Msg("TargetInvocation", NoName, "Exception has been thrown by the target of an invocation."),
     HasInner |-> TRUE, InnerMessage |-> inner.Message]
NoEx == Ex(Msg("none", NoName, ""))

\* Faulty variant: reports the reflection wrapper
UnwrapTargetInvocation_Keep(e) == e

\* catch (TargetInvocationException tie) when (tie.InnerException is not null) throw tie.InnerException
UnwrapTargetInvocation(e) == IF e.HasInner THEN Ex(e.InnerMessage) ELSE e

(***************************************************************************)
(* The user's program: the classes of the entry assembly.                  *)
(***************************************************************************)
Param(name, type, hasDefault, default, isOptional) ==
    [Name |-> name, ParameterType |-> type, HasDefaultValue |-> hasDefault,
     DefaultValue |-> default, IsOptional |-> isOptional]

Ret(shape, inner) == [shape |-> shape, inner |-> inner]

Method(name, params, ret, body, isAsync) ==
    [Name |-> name, IsPublic |-> TRUE, IsSpecialName |-> FALSE, FunctionAttr |-> TRUE,
     IgnoreAttr |-> FALSE, AttrName |-> NoName, Parameters |-> params, ReturnType |-> ret, Body |-> body,
     IsAsync |-> isAsync]

Property(name, type, fieldAttr) ==
    [Name |-> name, PropertyType |-> type, FieldAttr |-> fieldAttr, AttrName |-> NoName]

\* [Object] class Test (TestReturnSelf, TestDefaultValue, TestOptionalValue,
\* TestSignatures, TestErrors, TestCustomObjects of the integration suite)
TestClass ==
    [Name |-> Up("test"), Type |-> "Test", ObjectAttr |-> TRUE, AttrName |-> NoName,
     Constructors |-> << <<Param(Lo("value"), "string", TRUE, NStr(""), TRUE)>> >>,
     CtorBody |-> "store",
     Properties |-> <<Property(Up("value"), "string", TRUE)>>,
     Methods |-> <<
        Method(Up("withValue"), <<Param(Lo("value"), "string", FALSE, NNull, FALSE)>>,
               Ret("plain", "Test"), "setReturnThis", FALSE),
        Method(Up("getValue"), <<>>, Ret("plain", "string"), "getField", FALSE),
        Method(Up("method1"), <<Param(Lo("arg1"), "string", FALSE, NNull, FALSE),
                                Param(Lo("arg2"), "int", FALSE, NNull, FALSE)>>,
               Ret("plain", "string"), "echo", FALSE),
        Method(Up("add"), <<Param(Lo("a"), "int", FALSE, NNull, FALSE),
                            Param(Lo("b"), "int", TRUE, NInt(10), TRUE)>>,
               Ret("plain", "int"), "add", FALSE),
        Method(Up("greet"), <<Param(Lo("name"), "string", FALSE, NNull, FALSE),
                              Param(Lo("greeting"), "string", TRUE, NNull, TRUE)>>,
               Ret("plain", "string"), "echo", FALSE),
        Method(Up("count"), <<Param(Lo("n"), "int?", FALSE, NNull, FALSE),
                              Param(Lo("ct"), "CancellationToken", FALSE, NNull, FALSE)>>,
               Ret("ValueTask<>", "int"), "const42", TRUE),
        Method(Up("throwError"), <<>>, Ret("plain", "string"), "throw", FALSE),
        Method(Up("asyncMethod"), <<Param(Lo("input"), "string", FALSE, NNull, FALSE)>>,
               Ret("Task<>", "string"), "echo", TRUE),
        Method(Up("failAsync"), <<>>, Ret("Task<>", "int"), "throw", TRUE),
        Method(Up("wait"), <<>>, Ret("Task", "void"), "nothing", TRUE),
        Method(Up("flush"), <<>>, Ret("ValueTask", "void"), "nothing", FALSE),
        Method(Up("createCustom"), <<Param(Lo("name"), "string", FALSE, NNull, FALSE)>>,
               Ret("plain", "CustomObject"), "newCustom", FALSE),
        [Method(Up("hiddenFunction"), <<>>, Ret("plain", "string"), "getField", FALSE)
            EXCEPT !.IgnoreAttr = TRUE],
        [Method(Up("helperMethod"), <<>>, Ret("plain", "string"), "getField", FALSE)
            EXCEPT !.FunctionAttr = FALSE],
        [Method(Up("privateFunction"), <<>>, Ret("plain", "string"), "getField", FALSE)
            EXCEPT !.IsPublic = FALSE, !.FunctionAttr = FALSE],
        [Method(Up("get_Value"), <<>>, Ret("plain", "string"), "getField", FALSE)
            EXCEPT !.IsSpecialName = TRUE, !.FunctionAttr = FALSE]
     >>]

\* [Object] class CustomObject(string name = "") (TestCustomObjects)
CustomObjectClass ==
    [Name |-> Up("customObject"), Type |-> "CustomObject", ObjectAttr |-> TRUE, AttrName |-> NoName,
     Constructors |-> << <<Param(Lo("name"), "string", TRUE, NStr(""), TRUE)>> >>,
     CtorBody |-> "store",
     Properties |-> <<Property(Up("name"), "string", TRUE)>>,
     Methods |-> <<Method(Up("getName"), <<>>, Ret("plain", "string"), "getField", FALSE)>>]

\* [Object] class whose constructor normalizes its argument the way the
\* AdvancedExample module does (DefaultImage = defaultImage ?? "alpine:latest"):
\* Name = name ?? "anon"; the property has a setter, as in TestReturnSelf
GreeterClass ==
    [Name |-> Up("greeter"), Type |-> "Greeter", ObjectAttr |-> TRUE, AttrName |-> NoName,
     Constructors |-> << <<Param(Lo("name"), "string", TRUE, NStr(""), TRUE)>> >>,
     CtorBody |-> "normalize",
     Properties |-> <<Property(Up("name"), "string", TRUE)>>,
     Methods |-> <<
        Method(Up("withName"), <<Param(Lo("name"), "string", FALSE, NNull, FALSE)>>,
               Ret("plain", "Greeter"), "setReturnThis", FALSE),
        Method(Up("getName"), <<>>, Ret("plain", "string"), "getField", FALSE)>>]

\* [Object] class with only the implicit default constructor, one [Field]
\* property and one public property that is not a field
PlainClass ==
    [Name |-> Up("plain"), Type |-> "Plain", ObjectAttr |-> TRUE, AttrName |-> NoName,
     Constructors |-> << <<>> >>,
     CtorBody |-> "store",
     Properties |-> <<Property(Up("note"), "string", TRUE),
                      Property(Up("scratch"), "string", FALSE)>>,
     Methods |-> <<
        Method(Up("withNote"), <<Param(Lo("note"), "string", FALSE, NNull, FALSE)>>,
               Ret("plain", "Plain"), "setReturnThis", FALSE),
        Method(Up("getNote"), <<>>, Ret("plain", "string"), "getField", FALSE)>>]

\* [Object] class whose constructor takes a required parameter and an
\* [Optional] one without default; Note is a [Field] no constructor parameter sets
ScopedClass ==
    [Name |-> Up("scoped"), Type |-> "Scoped", ObjectAttr |-> TRUE, AttrName |-> NoName,
     Constructors |-> << <<Param(Lo("owner"), "string", FALSE, NNull, FALSE),
                           Param(Lo("tag"), "string", FALSE, NNull, TRUE)>> >>,
     CtorBody |-> "store",
     Properties |-> <<Property(Up("note"), "string", TRUE),
                      Property(Up("owner"), "string", TRUE)>>,
     Methods |-> <<
        Method(Up("withNote"), <<Param(Lo("note"), "string", FALSE, NNull, FALSE)>>,
               Ret("plain", "Scoped"), "setReturnThis", FALSE)>>]

\* a public class without [Object]: ignored by discovery
HelperClass ==
    [Name |-> Up("helper"), Type |-> "Helper", ObjectAttr |-> FALSE, AttrName |-> NoName,
     Constructors |-> << <<>> >>,
     CtorBody |-> "store",
     Properties |-> <<>>,
     Methods |-> <<Method(Up("run"), <<>>, Ret("plain", "string"), "getField", FALSE)>>]

\* an [Object] class with neither functions nor fields: dropped by discovery
EmptyClass ==
    [Name |-> Up("empty"), Type |-> "Empty", ObjectAttr |-> TRUE, AttrName |-> NoName,
     Constructors |-> << <<>> >>,
     CtorBody |-> "store",
     Properties |-> <<>>,
     Methods |-> <<>>]

\* the entry assemblies the model runs: a module, and one without [Object] types
ModuleAssembly ==
    <<TestClass, CustomObjectClass, GreeterClass, PlainClass, ScopedClass, HelperClass, EmptyClass>>
BareAssembly == <<HelperClass>>

\* [Object] class Payload: [Field(Name = "Body")] Text, and a public property
\* that is not a field
PayloadClass ==
    [Name |-> Up("payload"), Type |-> "Payload", ObjectAttr |-> TRUE, AttrName |-> NoName,
     Constructors |-> << <<>> >>,
     CtorBody |-> "store",
     Properties |-> <<[Property(Up("text"), "string", TRUE) EXCEPT !.AttrName = Up("body")],
                      Property(Up("secret"), "string", FALSE)>>,
     Methods |-> <<>>]

\* [Object] class Envelope: [Field] Label, [Field] Inner of type Payload, and
\* a public property that is not a field
EnvelopeClass ==
    [Name |-> Up("envelope"), Type |-> "Envelope", ObjectAttr |-> TRUE, AttrName |-> NoName,
     Constructors |-> << <<>> >>,
     CtorBody |-> "store",
     Properties |-> <<Property(Up("label"), "string", TRUE),
                      Property(Up("inner"), "Payload", TRUE),
                      Property(Up("draft"), "string", FALSE)>>,
     Methods |-> <<>>]

\* an assembly of data objects, one nested in the other
CodecAssembly == <<EnvelopeClass, PayloadClass>>

\* [Object] class Unmapped with one System.IO.Stream, a type BuildTypeDef has
\* no case for, at the named position: constructor parameter, [Field]
\* property, function parameter or return type
UnmappedClass(position) ==
    [Name |-> Up("unmapped"), Type |-> "Unmapped", ObjectAttr |-> TRUE, AttrName |-> NoName,
     Constructors |-> IF position = "unmappedConstructor"
                      THEN << <<Param(Lo("source"), "Stream", FALSE, NNull, FALSE)>> >>
                      ELSE << <<>> >>,
     CtorBody |-> "store",
     Properties |-> IF position = "unmappedField" THEN <<Property(Up("source"), "Stream", TRUE)>> ELSE <<>>,
     Methods |-> <<
        IF position = "unmappedParameter"
        THEN Method(Up("ping"), <<Param(Lo("source"), "Stream", FALSE, NNull, FALSE)>>,
                    Ret("plain", "int"), "const42", FALSE)
        ELSE IF position = "unmappedReturn"
        THEN Method(Up("open"), <<>>, Ret("plain", "Stream"), "nothing", FALSE)
        ELSE Method(Up("ping"), <<>>, Ret("plain", "int"), "const42", FALSE)>>]
UnmappedTags == {"unmappedConstructor", "unmappedField", "unmappedParameter", "unmappedReturn"}

\* [Object(Name = "Alias")] class Renamed with one [Field]
RenamedClass ==
    [Name |-> Up("renamed"), Type |-> "Renamed", ObjectAttr |-> TRUE, AttrName |-> Up("alias"),
     Constructors |-> << <<>> >>,
     CtorBody |-> "store",
     Properties |-> <<Property(Up("label"), "string", TRUE)>>,
     Methods |-> <<>>]

\* [Object] class Tracker: functions that take enums (GetStatus of TestEnum,
\* an enum without [Enum], an enum with a name override) and that return
\* other module objects (one renamed, one without functions or fields)
TrackerClass ==
    [Name |-> Up("tracker"), Type |-> "Tracker", ObjectAttr |-> TRUE, AttrName |-> NoName,
     Constructors |-> << <<>> >>,
     CtorBody |-> "store",
     Properties |-> <<>>,
     Methods |-> <<
        Method(Up("getStatus"), <<Param(Lo("status"), "Status", FALSE, NNull, FALSE)>>,
               Ret("plain", "int"), "const42", FALSE),
        Method(Up("rank"), <<Param(Lo("level"), "Level", FALSE, NNull, FALSE)>>,
               Ret("plain", "int"), "const42", FALSE),
        Method(Up("paint"), <<Param(Lo("shade"), "Shade", FALSE, NNull, FALSE)>>,
               Ret("plain", "int"), "const42", FALSE),
        Method(Up("open"), <<>>, Ret("plain", "Renamed"), "nothing", FALSE),
        Method(Up("clear"), <<>>, Ret("plain", "Empty"), "nothing", FALSE)>>]

\* [Object] class Limited(int? limit): the constructor parameter is
\* nullable, has no default and is not marked [Optional]
LimitedClass ==
    [Name |-> Up("limited"), Type |-> "Limited", ObjectAttr |-> TRUE, AttrName |-> NoName,
     Constructors |-> << <<Param(Lo("limit"), "int?", FALSE, NNull, FALSE)>> >>,
     CtorBody |-> "store",
     Properties |-> <<Property(Up("limit"), "int?", TRUE)>>,
     Methods |-> <<Method(Up("getLimit"), <<>>, Ret("plain", "int?"), "getField", FALSE)>>]

\* [Object] class Fragile(string name = ""): the constructor throws
FragileClass ==
    [Name |-> Up("fragile"), Type |-> "Fragile", ObjectAttr |-> TRUE, AttrName |-> NoName,
     Constructors |-> << <<Param(Lo("name"), "string", TRUE, NStr(""), TRUE)>> >>,
     CtorBody |-> "throw",
     Properties |-> <<Property(Up("name"), "string", TRUE)>>,
     Methods |-> <<Method(Up("getName"), <<>>, Ret("plain", "string"), "getField", FALSE)>>]

\* [Object] class Brittle: the parameterless constructor throws
BrittleClass ==
    [Name |-> Up("brittle"), Type |-> "Brittle", ObjectAttr |-> TRUE, AttrName |-> NoName,
     Constructors |-> << <<>> >>,
     CtorBody |-> "throw",
     Properties |-> <<>>,
     Methods |-> <<Method(Up("ping"), <<>>, Ret("plain", "int"), "const42", FALSE)>>]

\* a module of types whose construction is the point
ConstructorAssembly == <<LimitedClass, FragileClass, BrittleClass>>

\* [Object] class Finder: two overloads of Find, Scan next to scan, and
\* Fetch exposed under the name of Load
FinderClass ==
    [Name |-> Up("finder"), Type |-> "Finder", ObjectAttr |-> TRUE, AttrName |-> NoName,
     Constructors |-> << <<>> >>,
     CtorBody |-> "store",
     Properties |-> <<>>,
     Methods |-> <<
        Method(Up("find"), <<Param(Lo("text"), "string", FALSE, NNull, FALSE)>>,
               Ret("plain", "string"), "echo", FALSE),
        Method(Up("find"), <<Param(Lo("id"), "int", FALSE, NNull, FALSE)>>,
               Ret("plain", "int"), "const42", FALSE),
        Method(Up("scan"), <<>>, Ret("plain", "int"), "const42", FALSE),
        Method(Lo("scan"), <<>>, Ret("plain", "string"), "nothing", FALSE),
        Method(Up("load"), <<>>, Ret("plain", "int"), "const42", FALSE),
        [Method(Up("fetch"), <<>>, Ret("plain", "string"), "nothing", FALSE)
            EXCEPT !.AttrName = Lo("load")]>>]

\* a module whose methods share exposed names
OverloadAssembly == <<FinderClass>>

\* a module whose functions refer to enums and to other module objects
ReferenceAssembly == <<TrackerClass, RenamedClass, EmptyClass>>

EntryAssembly(tag) ==
    IF tag = "module" THEN ModuleAssembly
    ELSE IF tag = "codec" THEN CodecAssembly
    ELSE IF tag = "references" THEN ReferenceAssembly
    ELSE IF tag = "constructors" THEN ConstructorAssembly
    ELSE IF tag = "overloads" THEN OverloadAssembly
    ELSE IF tag \in UnmappedTags THEN <<UnmappedClass(tag)>>
    ELSE BareAssembly
AssemblyTags == {"module", "bare", "references", "constructors", "overloads"} \cup UnmappedTags

\* [Enum] public enum Status { Active, Inactive, Pending } (TestEnum): member
\* names as character sequences, constants 0, 1, 2 in declaration order
StatusEnum ==
    [Type |-> "Status", EnumAttr |-> TRUE, AttrName |-> "",
     Members |-> << <<"A", "c", "t", "i", "v", "e">>,
                    <<"I", "n", "a", "c", "t", "i", "v", "e">>,
                    <<"P", "e", "n", "d", "i", "n", "g">> >>]

\* public enum Level { Low, High } without [Enum]
LevelEnum ==
    [Type |-> "Level", EnumAttr |-> FALSE, AttrName |-> "",
     Members |-> << <<"L", "o", "w">>, <<"H", "i", "g", "h">> >>]

\* [Enum(Name = "Color")] public enum Shade { Red, Blue }
ShadeEnum ==
    [Type |-> "Shade", EnumAttr |-> TRUE, AttrName |-> "Color",
     Members |-> << <<"R", "e", "d">>, <<"B", "l", "u", "e">> >>]

EnumTypes == <<StatusEnum, LevelEnum, ShadeEnum>>
\* assembly.GetTypes().Where(t => t.IsEnum): the enums an entry assembly declares
AssemblyEnums(tag) ==
    IF tag = "references" THEN <<StatusEnum, LevelEnum, ShadeEnum>> ELSE <<>>
IsEnum(type) == \E i \in 1..Len(EnumTypes) : EnumTypes[i].Type = type
EnumOf(type) == EnumTypes[CHOOSE i \in 1..Len(EnumTypes) : EnumTypes[i].Type = type]

\* types assignable to DaggerObject: handles of engine objects
DaggerObjectTypes == {"Container", "Directory", "LocalHandle"}
IsDaggerObject(type) == type \in DaggerObjectTypes

(***************************************************************************)
(* Metadata discovery.                                                     *)
(***************************************************************************)
\* FirstOrDefault: the first of the indices that satisfy a test
FirstIndex(S) == CHOOSE i \in S : \A j \in S : i <= j

\* attr.Name ?? member.Name
Coalesce(attrName, name) == IF attrName = NoName THEN name ELSE attrName

\* Nullable.GetUnderlyingType(type) is not null
IsNullableValueType(type) == type = "int?"
UnderlyingType(type) == IF type = "int?" THEN "int" ELSE type
IsValueType(type) == type \in {"int", "short", "byte", "CancellationToken"} \/ IsEnum(type)

NoConstructor == [present |-> FALSE, params |-> <<>>]

\* GetModuleConstructor: null when the only constructor is the default one,
\* otherwise the first constructor that has parameters
GetModuleConstructor(moduleType) ==
    LET constructors == moduleType.Constructors
        defaultCtor == {i \in 1..Len(constructors) : Len(constructors[i]) = 0}
        withParams == {i \in 1..Len(constructors) : Len(constructors[i]) > 0}
    IN  IF defaultCtor # {} /\ Len(constructors) = 1 THEN NoConstructor
        ELSE IF withParams = {} THEN NoConstructor
        ELSE [present |-> TRUE, params |-> constructors[FirstIndex(withParams)]]

\* UnwrapReturnType: the declared result type and the three return flags
UnwrapReturnType(returnType) ==
    CASE returnType.shape = "plain" /\ returnType.inner = "void" ->
            [ReturnType |-> "void", ReturnsTask |-> FALSE, ReturnsValueTask |-> FALSE, ReturnsVoid |-> TRUE]
      [] returnType.shape = "Task" ->
            [ReturnType |-> "void", ReturnsTask |-> TRUE, ReturnsValueTask |-> FALSE, ReturnsVoid |-> TRUE]
      [] returnType.shape = "ValueTask" ->
            [ReturnType |-> "void", ReturnsTask |-> FALSE, ReturnsValueTask |-> TRUE, ReturnsVoid |-> TRUE]
      [] returnType.shape = "Task<>" ->
            [ReturnType |-> returnType.inner, ReturnsTask |-> TRUE, ReturnsValueTask |-> FALSE,
             ReturnsVoid |-> returnType.inner = "void"]
      [] returnType.shape = "ValueTask<>" ->
            [ReturnType |-> returnType.inner, ReturnsTask |-> FALSE, ReturnsValueTask |-> TRUE,
             ReturnsVoid |-> returnType.inner = "void"]
      [] OTHER ->
            [ReturnType |-> returnType.inner, ReturnsTask |-> FALSE, ReturnsValueTask |-> FALSE, ReturnsVoid |-> FALSE]

\* Method.ReturnType.IsGenericType, for the return types of the model
IsGenericType(returnType) == returnType.shape \in {"Task<>", "ValueTask<>"}

\* the ParameterMetadata of one declared parameter
ParameterMetadata(parameter) ==
    [Name |-> ToCamelCase(parameter.Name),
     Parameter |-> parameter,
     ParameterType |-> parameter.ParameterType,
     IsOptional |-> parameter.HasDefaultValue \/ parameter.IsOptional
                        \/ IsNullableValueType(parameter.ParameterType),
     IsCancellationToken |-> parameter.ParameterType = "CancellationToken"]

\* the FunctionInfo of one exposed method
FunctionInfo(method) ==
    LET r == UnwrapReturnType(method.ReturnType)
    IN  [Name |-> ToCamelCase(Coalesce(method.AttrName, method.Name)),
         Method |-> method,
         ReturnType |-> r.ReturnType,
         ReturnsTask |-> r.ReturnsTask,
         ReturnsValueTask |-> r.ReturnsValueTask,
         ReturnsVoid |-> r.ReturnsVoid,
         Parameters |-> [i \in 1..Len(method.Parameters) |-> ParameterMetadata(method.Parameters[i])]]

\* the FieldInfo of one [Field] property
FieldInfo(property) ==
    [Name |-> ToCamelCase(Coalesce(property.AttrName, property.Name)),
     PropertyInfo |-> property,
     PropertyType |-> property.PropertyType]

\* public instance methods that are not special-named and carry [Function]
IsExposedMethod(method) == method.IsPublic /\ ~method.IsSpecialName /\ method.FunctionAttr
IsExposedProperty(property) == property.FieldAttr

\* the ModuleTypeInfo of one [Object] class
ModuleTypeInfo(type) ==
    LET methods == SelectSeq(type.Methods, IsExposedMethod)
        properties == SelectSeq(type.Properties, IsExposedProperty)
    IN  [Name |-> Coalesce(type.AttrName, type.Name),
         ClrType |-> type,
         Constructor |-> GetModuleConstructor(type),
         Functions |-> [i \in 1..Len(methods) |-> FunctionInfo(methods[i])],
         Fields |-> [i \in 1..Len(properties) |-> FieldInfo(properties[i])]]

\* DiscoverModuleTypes: the classes of the entry assembly that carry [Object]
HasObjectAttribute(type) == type.ObjectAttr
DiscoverModuleTypes(assemblyTag) == SelectSeq(EntryAssembly(assemblyTag), HasObjectAttribute)

\* Faulty variant: every marked type is kept
HasFunctionsOrFields_Always(info) == TRUE

\* moduleInfo.Functions.Count > 0 || moduleInfo.Fields.Count > 0
HasFunctionsOrFields(info) == Len(info.Functions) > 0 \/ Len(info.Fields) > 0

\* BuildModuleTypeInfos: the discovered types that have a function or a field
BuildModuleTypeInfos(assemblyTag) ==
    LET types == DiscoverModuleTypes(assemblyTag)
        infos == [i \in 1..Len(types) |-> ModuleTypeInfo(types[i])]
    IN  SelectSeq(infos, HasFunctionsOrFields)

\* Faulty variant: names are compared without regard to the case of the first character
OrdinalEquals_IgnoreCase(a, b) == a.s = b.s /\ (a.c = "none") = (b.c = "none")

\* string.Equals(a, b, StringComparison.Ordinal)
OrdinalEquals(a, b) == a = b

\* FirstOrDefault over a list of infos by exact name
HasInfoNamed(infos, name) == \E i \in 1..Len(infos) : OrdinalEquals(infos[i].Name, name)
InfoNamed(infos, name) == infos[FirstIndex({i \in 1..Len(infos) : OrdinalEquals(infos[i].Name, name)})]

(***************************************************************************)
(* Type mapper.                                                            *)
(***************************************************************************)
\* clrType.GetCustomAttribute<ObjectAttribute>() is not null
IsModuleObjectType(type) ==
    \E tag \in AssemblyTags \cup {"codec"} :
        LET types == EntryAssembly(tag)
        IN  \E i \in 1..Len(types) : types[i].Type = type /\ types[i].ObjectAttr

TypeDef(kind, name) == [Kind |-> kind, Name |-> name, Optional |-> FALSE]
WithOptional(typeDef, optional) == [typeDef EXCEPT !.Optional = optional]
NoTypeDef == TypeDef("NONE", "")

NotSupported(type) == Ex(Msg("NotSupported", NoName, type))

\* Faulty variant: the void kind takes the nullability of the declared type
VoidIsNullable_AsDeclared(isNullable) == isNullable

\* return (dag.TypeDef().WithKind(TypeDefKind.VOID_KIND), true)
VoidIsNullable(isNullable) == TRUE

\* Faulty variant: a type without a mapping falls back to the scalar kind
UnsupportedType_AsScalar(type) ==
    [ok |-> TRUE, typeDef |-> TypeDef("SCALAR_KIND", ""), isNullable |-> FALSE, ex |-> NoEx]

\* throw new NotSupportedException($"Unsupported type '{clrType.FullName}'.")
UnsupportedType(type) ==
    [ok |-> FALSE, typeDef |-> NoTypeDef, isNullable |-> FALSE, ex |-> NotSupported(type)]

\* BuildTypeDef: the type definition of a native type and whether it is nullable
BuildTypeDef(clrType) ==
    LET isNullable == IsNullableValueType(clrType)
        type == UnderlyingType(clrType)
        Mapped(typeDef, nullable) == [ok |-> TRUE, typeDef |-> typeDef, isNullable |-> nullable, ex |-> NoEx]
    IN  CASE type = "string" -> Mapped(TypeDef("STRING_KIND", ""), isNullable)
          [] type \in {"int", "short", "byte"} -> Mapped(TypeDef("INTEGER_KIND", ""), isNullable)
          [] IsEnum(type) -> Mapped(TypeDef("ENUM", type), isNullable)
          [] IsDaggerObject(type) -> Mapped(TypeDef("OBJECT", type), isNullable)
          [] IsModuleObjectType(type) -> Mapped(TypeDef("OBJECT", type), isNullable)
          [] type = "void" -> Mapped(TypeDef("VOID_KIND", ""), VoidIsNullable(isNullable))
          [] OTHER -> UnsupportedType(type)

(***************************************************************************)
(* Argument / result codec.                                                *)
(***************************************************************************)
Ok(v) == [ok |-> TRUE, value |-> v, ex |-> NoEx, loads |-> <<>>]
Throw(e) == [ok |-> FALSE, value |-> NNull, ex |-> e, loads |-> <<>>]

\* the number of values of a 16-bit and of an 8-bit integer
Int16Modulus == 65536
ByteModulus == 256

\* JsonElement.GetString / GetInt32 on an element of another kind
WrongKind == Ex(Msg("Decode", NoName, "The requested operation requires an element of another type."))

\* ---- text as a sequence of characters -------------------------------------
LowerLetters == <<"a", "b", "c", "d", "e", "f", "g", "h", "i", "j", "k", "l", "m",
                  "n", "o", "p", "q", "r", "s", "t", "u", "v", "w", "x", "y", "z">>
UpperLetters == <<"A", "B", "C", "D", "E", "F", "G", "H", "I", "J", "K", "L", "M",
                  "N", "O", "P", "Q", "R", "S", "T", "U", "V", "W", "X", "Y", "Z">>
Digits == <<"0", "1", "2", "3", "4", "5", "6", "7", "8", "9">>

IsLower(c) == \E i \in 1..Len(LowerLetters) : LowerLetters[i] = c
IsUpper(c) == \E i \in 1..Len(UpperLetters) : UpperLetters[i] = c
IsDigit(c) == \E i \in 1..Len(Digits) : Digits[i] = c
DigitValue(c) == (CHOOSE i \in 1..Len(Digits) : Digits[i] = c) - 1
ToUpperChar(c) ==
    IF IsLower(c) THEN UpperLetters[CHOOSE i \in 1..Len(LowerLetters) : LowerLetters[i] = c] ELSE c

\* string.Trim()
Trim(text) ==
    LET kept == {i \in 1..Len(text) : text[i] # " "}
    IN  IF kept = {} THEN <<>>
        ELSE SubSeq(text, FirstIndex(kept), CHOOSE i \in kept : \A j \in kept : j <= i)

\* string.Split(separator)
RECURSIVE Split(_, _)
Split(text, separator) ==
    LET at == {i \in 1..Len(text) : text[i] = separator}
    IN  IF at = {} THEN <<text>>
        ELSE <<SubSeq(text, 1, FirstIndex(at) - 1)>>
                \o Split(SubSeq(text, FirstIndex(at) + 1, Len(text)), separator)

\* the number a run of decimal digits denotes
RECURSIVE DigitsValue(_)
DigitsValue(digits) ==
    IF digits = <<>> THEN 0
    ELSE 10 * DigitsValue(SubSeq(digits, 1, Len(digits) - 1)) + DigitValue(digits[Len(digits)])

\* string.Equals(a, b, StringComparison.OrdinalIgnoreCase)
EqualsIgnoreCase(a, b) ==
    /\ Len(a) = Len(b)
    /\ \A i \in 1..Len(a) : ToUpperChar(a[i]) = ToUpperChar(b[i])

\* bitwise or of two enum constants below 4
BitOr(a, b) ==
    LET Bit(k, x) == (x \div k) % 2
        Or(k) == IF Bit(k, a) = 1 \/ Bit(k, b) = 1 THEN k ELSE 0
    IN  Or(1) + Or(2)

\* ---- Enum.Parse(targetType, stringValue, ignoreCase: true) ------------------
RequestedValueNotFound == Ex(Msg("Decode", NoName, "Requested value was not found."))

\* an optionally signed run of digits
IsIntegerLiteral(text) ==
    LET digits == IF text[1] \in {"-", "+"} THEN Tail(text) ELSE text
    IN  digits # <<>> /\ \A i \in 1..Len(digits) : IsDigit(digits[i])
IntegerValue(text) ==
    IF text[1] = "-" THEN 0 - DigitsValue(Tail(text))
    ELSE IF text[1] = "+" THEN DigitsValue(Tail(text))
    ELSE DigitsValue(text)

\* the name comparison of Enum.Parse under ignoreCase
NameMatches(member, name) == EqualsIgnoreCase(member, name)

\* the constant of the member a name denotes, -1 when there is none
MemberValue(enum, name) ==
    LET found == {i \in 1..Len(enum.Members) : NameMatches(enum.Members[i], name)}
    IN  IF found = {} THEN 0 - 1 ELSE FirstIndex(found) - 1

\* the constants, or-ed, of a list of names
RECURSIVE OrOfMembers(_, _)
OrOfMembers(enum, names) ==
    IF names = <<>> THEN 0
    ELSE BitOr(MemberValue(enum, Trim(Head(names))), OrOfMembers(enum, Tail(names)))

\* Enum.Parse: a number is taken as it is, member or not; otherwise a
\* comma-separated list of member names, each trimmed
EnumParse(enum, stringValue) ==
    LET value == Trim(stringValue)
        names == Split(value, ",")
    IN  IF value = <<>> THEN Throw(RequestedValueNotFound)
        ELSE IF (IsDigit(value[1]) \/ value[1] \in {"-", "+"}) /\ IsIntegerLiteral(value)
        THEN Ok(NEnum(enum.Type, IntegerValue(value)))
        ELSE IF \E i \in 1..Len(names) : MemberValue(enum, Trim(names[i])) < 0
        THEN Throw(RequestedValueNotFound)
        ELSE Ok(NEnum(enum.Type, OrOfMembers(enum, names)))

\* ---- enum discovery -------------------------------------------------------
\* Int32.ToString() of a constant that is not negative
RECURSIVE Int32ToString(_)
Int32ToString(n) ==
    IF n < 10 THEN <<Digits[n + 1]>> ELSE Int32ToString(n \div 10) \o <<Digits[(n % 10) + 1]>>

\* the EnumValueInfo of one public static field of the enum:
\* Name = field.Name, Value = field.GetRawConstantValue()?.ToString() ?? field.Name;
\* the raw constant of an enum member is never null
EnumValueInfo(enum, index) ==
    [Name |-> enum.Members[index], Value |-> Int32ToString(index - 1)]

\* type.GetCustomAttribute<EnumAttribute>() is not null
HasEnumAttribute(enum) == enum.EnumAttr

\* the EnumTypeInfo of one [Enum] type: Name = enumAttr.Name ?? type.Name
EnumTypeInfo(enum) ==
    [Name |-> IF enum.AttrName = "" THEN enum.Type ELSE enum.AttrName,
     EnumType |-> enum,
     Values |-> [i \in 1..Len(enum.Members) |-> EnumValueInfo(enum, i)]]

\* BuildEnumTypeInfos: the enums of the entry assembly that carry [Enum]
BuildEnumTypeInfos(assemblyTag) ==
    LET marked == SelectSeq(AssemblyEnums(assemblyTag), HasEnumAttribute)
    IN  [i \in 1..Len(marked) |-> EnumTypeInfo(marked[i])]

\* ---- remote objects -------------------------------------------------------
\* string.IsNullOrWhiteSpace, for the identifiers of the model
IsNullOrWhiteSpace(id) == id \in {"", " "}

CannotLoad(type) == Ex(Msg("CannotLoad", NoName, type))
MissingIdType(type) == Ex(Msg("MissingIdType", NoName, type))

\* typeof(Query).GetMethod("Load" + Name + "FromId") is not null
HasLoader(type) == type \in {"Container", "Directory"}
\* the assembly of the type declares <Name>Id
HasIdType(type) == type \in {"Container", "Directory", "LocalHandle"}
\* loadMethod.Invoke(dag, idInstance): the handle of the object with that id
LoadFromId(type, id) == NHandle(type, id)

\* Faulty variant: the id of a wire object is not looked at
IdOfObject_Ignored(element) == [ok |-> TRUE, id |-> ""]

\* JsonValueKind.Object when element.TryGetProperty("id", out var idProperty) => idProperty.GetString()
IdOfObject(element) ==
    IF Lo("id") \notin DOMAIN element.o THEN [ok |-> TRUE, id |-> ""]
    ELSE LET idProperty == element.o[Lo("id")]
         IN  IF idProperty.k = "str" THEN [ok |-> TRUE, id |-> idProperty.s]
             ELSE IF idProperty.k = "null" THEN [ok |-> TRUE, id |-> ""]
             ELSE [ok |-> FALSE, id |-> ""]

\* lines 1007-1036: a DaggerObject target is loaded by its id
ConvertRemoteObject(element, targetType) ==
    LET found == IF element.k = "str" THEN [ok |-> TRUE, id |-> element.s]
                 ELSE IF element.k = "obj" THEN IdOfObject(element)
                 ELSE [ok |-> TRUE, id |-> ""]
    IN  IF ~found.ok THEN Throw(WrongKind)
        ELSE IF IsNullOrWhiteSpace(found.id) THEN Ok(NNull)
        ELSE IF ~HasLoader(targetType) THEN Throw(CannotLoad(targetType))
        ELSE IF ~HasIdType(targetType) THEN Throw(MissingIdType(targetType))
        ELSE [Ok(LoadFromId(targetType, found.id)) EXCEPT !.loads = <<[type |-> targetType, id |-> found.id]>>]

\* Activator.CreateInstance(targetType) of a value type
DefaultOf(type) == IF IsEnum(type) THEN NEnum(type, 0) ELSE NInt(0)

\* Faulty variant: a value outside the 16-bit range is clamped to it
Int16Cast_Saturating(n) == IF n > 32767 THEN 32767 ELSE IF n < 0 - 32768 THEN 0 - 32768 ELSE n

\* (short)n in an unchecked context: the low 16 bits of n, read as signed
Int16Cast(n) ==
    LET low == n % Int16Modulus
    IN  IF low >= Int16Modulus \div 2 THEN low - Int16Modulus ELSE low

\* (byte)n in an unchecked context: the low 8 bits of n
ByteCast(n) == n % ByteModulus

\* ConvertArgumentAsync for the target types of the model
ConvertArgumentAsync(element, targetType) ==
    LET type == UnderlyingType(targetType)
    IN  IF IsNullableValueType(targetType) /\ element.k = "null" THEN Ok(NNull)
        ELSE IF element.k = "null" THEN (IF IsValueType(type) THEN Ok(DefaultOf(type)) ELSE Ok(NNull))
        ELSE IF type = "string" THEN (IF element.k = "str" THEN Ok(NStr(element.s)) ELSE Throw(WrongKind))
        ELSE IF type = "int" THEN (IF element.k = "num" THEN Ok(NInt(element.n)) ELSE Throw(WrongKind))
        ELSE IF type = "short"
             THEN (IF element.k = "num" THEN Ok(NInt(Int16Cast(element.n))) ELSE Throw(WrongKind))
        ELSE IF type = "byte"
             THEN (IF element.k = "num" THEN Ok(NInt(ByteCast(element.n))) ELSE Throw(WrongKind))
        ELSE IF IsEnum(type)
             THEN (IF element.k = "str" THEN EnumParse(EnumOf(type), element.s) ELSE Throw(WrongKind))
        ELSE IF IsDaggerObject(type) THEN ConvertRemoteObject(element, type)
        ELSE Throw(Ex(Msg("Decode", NoName, "The JSON value could not be converted.")))

\* value.GetType(): the class of a native object
ClassOf(assemblyTag, ty) ==
    LET asm == EntryAssembly(assemblyTag)
    IN  asm[FirstIndex({i \in 1..Len(asm) : asm[i].Name = ty})]

\* the primitive cases of NormalizeResultAsync
NormalizeScalar(value) ==
    CASE value.t = "string" -> JStr(value.s)
      [] value.t = "int" -> JNum(value.n)
      [] OTHER -> JNull

\* generic JSON serialization of a Task that was never awaited
SerializedTask == JObj([key \in {Lo("status"), Lo("isCompleted"), Lo("id")} |-> JNull])

\* Faulty variant: encodes every public property of a module object
EncodedProperties_All(class) == {i \in 1..Len(class.Properties) : TRUE}

\* the properties NormalizeResultAsync encodes: those carrying [Field]
EncodedProperties(class) == {i \in 1..Len(class.Properties) : class.Properties[i].FieldAttr}

\* NormalizeResultAsync: a module object becomes the map of its [Field]
\* properties, each value normalized in turn; a later property of the same
\* key overwrites an earlier one
RECURSIVE NormalizeResultAsync(_, _)
NormalizeResultAsync(assemblyTag, value) ==
    CASE value.t = "null" -> JNull
      [] value.t \in {"string", "int"} -> NormalizeScalar(value)
      [] value.t = "object" /\ ClassOf(assemblyTag, value.ty).ObjectAttr ->
            LET class == ClassOf(assemblyTag, value.ty)
                idx == EncodedProperties(class)
                KeyOf(i) == ToCamelCase(Coalesce(class.Properties[i].AttrName, class.Properties[i].Name))
                keys == {KeyOf(i) : i \in idx}
            IN  JObj([key \in keys |->
                        LET i == CHOOSE j \in idx : KeyOf(j) = key /\ \A l \in idx : KeyOf(l) = key => l <= j
                        IN  NormalizeResultAsync(assemblyTag, value.props[class.Properties[i].Name])])
      [] value.t = "task" -> SerializedTask
      [] OTHER -> JNull

\* JsonSerializer.Serialize(instance, SerializerOptions): every public
\* property under its camel-case name, null values left out
SerializeInstance(class, props) ==
    LET idx == {i \in 1..Len(class.Properties) : props[class.Properties[i].Name].t # "null"}
        KeyOf(i) == ToCamelCase(class.Properties[i].Name)
    IN  JObj([key \in {KeyOf(i) : i \in idx} |->
                LET i == CHOOSE j \in idx : KeyOf(j) = key
                IN  NormalizeScalar(props[class.Properties[i].Name])])

(***************************************************************************)
(* toPascalCase of the runtime module (main.go): the class name a new      *)
(* module's template gets.  Names are sequences of characters.             *)
(***************************************************************************)
DaggerModule == <<"D", "a", "g", "g", "e", "r", "M", "o", "d", "u", "l", "e">>

\* r == '-' || r == '_' || r == ' '
IsSeparator(r) == r \in {"-", "_", " "}

\* the split loop: the non-empty runs between separators, from position i on
RECURSIVE Parts(_, _, _)
Parts(name, i, currentPart) ==
    IF i > Len(name)
    THEN (IF currentPart # <<>> THEN <<currentPart>> ELSE <<>>)
    ELSE IF IsSeparator(name[i])
         THEN (IF currentPart # <<>> THEN <<currentPart>> ELSE <<>>) \o Parts(name, i + 1, <<>>)
         ELSE Parts(name, i + 1, Append(currentPart, name[i]))

\* the first rune upper-cased when it is a-z, the rest as it is
TitleCase(part) == <<ToUpperChar(part[1])>> \o Tail(part)

RECURSIVE JoinTitleCased(_)
JoinTitleCased(parts) ==
    IF parts = <<>> THEN <<>> ELSE TitleCase(Head(parts)) \o JoinTitleCased(Tail(parts))

\* the last loop: leading characters that are not letters are dropped
RECURSIVE DropLeadingNonLetters(_)
DropLeadingNonLetters(result) ==
    IF result = <<>> THEN DaggerModule
    ELSE IF IsUpper(result[1]) \/ IsLower(result[1]) THEN result
    ELSE IF Len(result) > 1 THEN DropLeadingNonLetters(Tail(result))
    ELSE DaggerModule

toPascalCase(name) ==
    IF name = <<>> THEN DaggerModule
    ELSE LET parts == Parts(name, 1, <<>>)
         IN  IF Len(parts) = 0 THEN DaggerModule
             ELSE DropLeadingNonLetters(JoinTitleCased(parts))

(***************************************************************************)
(* User code: constructors and method bodies of the classes above.         *)
(***************************************************************************)
\* property initializers: every string property starts as "", any other as null
InitialProps(class) ==
    [name \in {class.Properties[i].Name : i \in 1..Len(class.Properties)} |->
        IF \E i \in 1..Len(class.Properties) :
                class.Properties[i].Name = name /\ class.Properties[i].PropertyType = "string"
        THEN NStr("") ELSE NNull]

\* the user constructor: params is the chosen constructor's parameter list
ConstructorBody(class, params, args) ==
    LET init == InitialProps(class)
        Bound(name) == {i \in 1..Len(params) : ToCamelCase(params[i].Name) = ToCamelCase(name)}
        Stored(v) == IF class.CtorBody = "normalize" /\ v.t = "null" THEN NStr("anon") ELSE v
    IN  [name \in DOMAIN init |->
            IF Bound(name) = {} THEN init[name] ELSE Stored(args[FirstIndex(Bound(name))])]

UserError == Ex(Msg("User", NoName, "boom"))

\* the body of a user method: what it throws or returns, and the receiver afterwards
MethodBody(method, class, props, args) ==
    LET first == class.Properties[1].Name
    IN  CASE method.Body = "throw" -> [threw |-> TRUE, ex |-> UserError, result |-> NNull, props |-> props]
          [] method.Body = "setReturnThis" ->
                LET after == [props EXCEPT ![first] = args[1]]
                IN  [threw |-> FALSE, ex |-> NoEx, result |-> NObject(class.Name, after), props |-> after]
          [] method.Body = "getField" -> [threw |-> FALSE, ex |-> NoEx, result |-> props[first], props |-> props]
          [] method.Body = "add" ->
                [threw |-> FALSE, ex |-> NoEx, result |-> NInt(args[1].n + args[2].n), props |-> props]
          [] method.Body = "echo" -> [threw |-> FALSE, ex |-> NoEx, result |-> args[1], props |-> props]
          [] method.Body = "const42" -> [threw |-> FALSE, ex |-> NoEx, result |-> NInt(42), props |-> props]
          [] method.Body = "newCustom" ->
                [threw |-> FALSE, ex |-> NoEx,
                 result |-> NObject(Up("customObject"), [name \in {Up("name")} |-> args[1]]),
                 props |-> props]
          [] OTHER -> [threw |-> FALSE, ex |-> NoEx, result |-> NNull, props |-> props]

(***************************************************************************)
(* State of one process run, and of the engine across chained runs.        *)
(***************************************************************************)
VARIABLES
    assembly,        \* the entry assembly of the module process
    moduleInfos,     \* the module types discovered in the entry assembly
    call,            \* the engine's current function call: parentName, name, inputArgs, parent
    run,             \* number of the process run (the engine chains runs)
    prev,            \* the module object returned by the previous run, as encoded
    pc,              \* position of RunAsync
    faults,          \* RPC round trips that may still fail in this run
    exitCode,        \* value returned by RunAsync (NoExit while none)
    unhandled,       \* RunAsync ended with an exception nobody caught
    reports,         \* calls of returnValue / returnError, in order
    phases,          \* handlers entered in this run
    target,          \* indices of the located module type and function
    instance,        \* the receiver: exists, its properties
    ctorProps,       \* the receiver's properties as the constructor left them
    written,         \* properties set by the field population step
    userCalls,       \* user code executed: constructors and methods
    argumentValues,  \* native arguments handed to the method
    invocationResult,\* what the invocation produced (a task until awaited)
    task,            \* the asynchronous result of the method
    probe            \* one application of a function of the runtime: input and result

vars == <<assembly, moduleInfos, call, run, prev, pc, faults, exitCode, unhandled, reports, phases, target,
          instance, ctorProps, written, userCalls, argumentValues, invocationResult, task, probe>>

NoExit == -1
NoTarget == [type |-> 0, fn |-> 0]
NoInstance == [exists |-> FALSE, props |-> NoObj]
NoTask == [status |-> "none", threw |-> FALSE, ex |-> NoEx, result |-> NNull]
NoPrev == [exists |-> FALSE, ty |-> NoName, o |-> NoObj]
NoUserCalls == [ctor |-> 0, method |-> 0]
NoProbe == [op |-> "none", input |-> NoObj, done |-> FALSE, output |-> NoObj]

ValueReport(w) == [kind |-> "value", w |-> w, msg |-> Msg("none", NoName, "")]
ErrorReport(m) == [kind |-> "error", w |-> JNull, msg |-> m]

RpcFailure == Ex(Msg("Rpc", NoName, "The engine could not be reached."))

\* the infos of this run (line 61); moduleInfos holds BuildModuleTypeInfos of
\* the entry assembly, which is fixed for the life of the process
enumInfos == BuildEnumTypeInfos(assembly)
moduleInfo == moduleInfos[target.type]
functionInfo == moduleInfo.Functions[target.fn]

(***************************************************************************)
(* The calls the engine can make.                                          *)
(***************************************************************************)
ArgWires == {JStr("a"), JNum(5), JNull}
StateWires == {JStr("a"), JStr(""), JNull}

ObjectsOver(keys, values) == UNION {[dom -> values] : dom \in SUBSET keys}

\* engine-visible argument names of a parameter list
ArgNames(params) == {ToCamelCase(params[i].Name) : i \in {j \in 1..Len(params) :
                                                    params[j].ParameterType # "CancellationToken"}}

\* keys a serialized instance of the type can carry
StateKeys(info) ==
    {ToCamelCase(info.ClrType.Properties[i].Name) : i \in 1..Len(info.ClrType.Properties)}
        \cup ArgNames(info.Constructor.params)

\* the function names the engine may send for a type: the empty name, the
\* registered ones, the native spelling of one and names of unexposed methods
CallNames(info) ==
    {NoName, Lo("missing"), Lo("privateFunction"), Lo("helperMethod")}
        \cup {info.Functions[i].Name : i \in 1..Len(info.Functions)}
        \cup {info.Functions[i].Method.Name : i \in 1..Len(info.Functions) \cap {1}}

\* the wire values of the arguments of a parameter list; the wire strings of
\* an enum argument are spelled out where enum decoding is applied on its
\* own, here an enum argument is a number or null
ArgumentsOver(params) ==
    LET IsEnumKey(key) ==
            \E i \in 1..Len(params) : ToCamelCase(params[i].Name) = key /\ IsEnum(params[i].ParameterType)
    IN  {args \in ObjectsOver(ArgNames(params), ArgWires) :
            \A key \in DOMAIN args : IsEnumKey(key) => args[key].k # "str"}

ArgsFor(info, name) ==
    IF name = NoName THEN ArgumentsOver(info.Constructor.params)
    ELSE IF HasInfoNamed(info.Functions, name)
         THEN ArgumentsOver(InfoNamed(info.Functions, name).Method.Parameters)
         ELSE {NoObj}

RegistrationCall == [parentName |-> NoName, name |-> NoName, inputArgs |-> NoObj, parent |-> NoObj]

CallsOn(info, parents) ==
    {[parentName |-> info.Name, name |-> name, inputArgs |-> args, parent |-> parent] :
        <<name, args, parent>> \in
            UNION {{<<n, a, p>> : a \in ArgsFor(info, n), p \in parents} : n \in CallNames(info)}}

InitialCalls(assemblyTag) ==
    LET infos == BuildModuleTypeInfos(assemblyTag)
    IN  {RegistrationCall}
        \cup {[parentName |-> n, name |-> Lo("getValue"), inputArgs |-> NoObj, parent |-> NoObj] :
                n \in {Up("nope"), Lo("test")}}
        \cup UNION {CallsOn(infos[i], ObjectsOver(StateKeys(infos[i]), StateWires)) : i \in 1..Len(infos)}

Init ==
    /\ assembly \in AssemblyTags
    /\ moduleInfos = BuildModuleTypeInfos(assembly)
    /\ call \in InitialCalls(assembly)
    /\ run = 1
    /\ prev = NoPrev
    /\ pc = "Start"
    /\ faults = MaxFaults
    /\ exitCode = NoExit
    /\ unhandled = FALSE
    /\ reports = <<>>
    /\ phases = {}
    /\ target = NoTarget
    /\ instance = NoInstance
    /\ ctorProps = NoObj
    /\ written = {}
    /\ userCalls = NoUserCalls
    /\ argumentValues = <<>>
    /\ invocationResult = NNull
    /\ task = NoTask
    /\ probe = NoProbe

(***************************************************************************)
(* How a handler ends.                                                     *)
(***************************************************************************)
\* RunAsync is over: with an exit code, or with an exception that escaped
Finish(rep, code, escaped, f) ==
    /\ reports' = rep
    /\ exitCode' = code
    /\ unhandled' = escaped
    /\ faults' = f
    /\ pc' = "Done"

\* Faulty variant: a reported error counts as a clean pass
ReturnErrorAsync_ExitZero(m, rep, f) ==
    \/ Finish(Append(rep, ErrorReport(m)), 0, FALSE, f)
    \/ /\ f > 0
       /\ Finish(Append(rep, ErrorReport(m)), NoExit, TRUE, f - 1)

\* ReturnErrorAsync called where no try block encloses it; the call is an
\* RPC round trip and may itself fail
ReturnErrorAsync(m, rep, f) ==
    \/ Finish(Append(rep, ErrorReport(m)), 1, FALSE, f)
    \/ /\ f > 0
       /\ Finish(Append(rep, ErrorReport(m)), NoExit, TRUE, f - 1)

\* catch (Exception ex) { await ReturnErrorAsync(dag, fnCall, ex); return 1; }
Catch(ex, rep, f) == ReturnErrorAsync(ex.Message, rep, f)

\* await ReturnErrorAsync(dag, fnCall, message); return 1;  inside a try block
ReturnErrorInTry(m, f) ==
    \/ Finish(Append(reports, ErrorReport(m)), 1, FALSE, f)
    \/ /\ f > 0
       /\ Catch(RpcFailure, Append(reports, ErrorReport(m)), f - 1)

\* Faulty variant: a failed returnValue is tried once more
ReturnValueInTry_Retried(w, f) ==
    \/ Finish(Append(reports, ValueReport(w)), 0, FALSE, f)
    \/ /\ f > 0
       /\ Finish(Append(Append(reports, ValueReport(w)), ValueReport(w)), 0, FALSE, f - 1)

\* await fnCall.ReturnValueAsync(json); return 0;  inside a try block
ReturnValueInTry(w, f) ==
    \/ Finish(Append(reports, ValueReport(w)), 0, FALSE, f)
    \/ /\ f > 0
       /\ Catch(RpcFailure, Append(reports, ValueReport(w)), f - 1)

\* the catch block of HandleConstructorInvocationAsync (lines 575-579): the
\* handler is awaited inside the try block of HandleInvocationAsync, so a
\* failure of its ReturnErrorAsync reaches the catch block of lines 491-495
CatchInTry(ex, rep, f) ==
    \/ Finish(Append(rep, ErrorReport(ex.Message)), 1, FALSE, f)
    \/ /\ f > 0
       /\ Catch(RpcFailure, Append(rep, ErrorReport(ex.Message)), f - 1)

\* await fnCall.ReturnValueAsync(jsonResult); return 0;  in the try block of
\* HandleConstructorInvocationAsync
ReturnValueInConstructorTry(w, f) ==
    \/ Finish(Append(reports, ValueReport(w)), 0, FALSE, f)
    \/ /\ f > 0
       /\ CatchInTry(RpcFailure, Append(reports, ValueReport(w)), f - 1)

\* an exception escapes RunAsync
Escape(f) == Finish(reports, NoExit, TRUE, f)

(***************************************************************************)
(* RunAsync.                                                               *)
(***************************************************************************)
RunVars == <<assembly, moduleInfos, call, run, prev, probe>>
WorkVars == <<target, instance, ctorProps, written, userCalls, argumentValues, invocationResult, task>>

\* Faulty variant: a failure before the call handle exists is reported through returnError
StartupFailure_Reported(f) == ReturnErrorAsync(RpcFailure.Message, reports, f)

\* catch (Exception ex) { Console.Error.WriteLine(...); return 1; }
StartupFailure(f) == Finish(reports, 1, FALSE, f)

\* dag = Client.Dag, in its own try block
ClientDag ==
    /\ pc = "Start"
    /\ \/ /\ pc' = "HasDag"
          /\ UNCHANGED <<faults, exitCode, unhandled, reports>>
       \/ /\ faults > 0
          /\ StartupFailure(faults - 1)
    /\ UNCHANGED <<RunVars, WorkVars, phases>>

\* fnCall = dag.CurrentFunctionCall(), in its own try block
CurrentFunctionCall ==
    /\ pc = "HasDag"
    /\ \/ /\ pc' = "HasCall"
          /\ UNCHANGED <<faults, exitCode, unhandled, reports>>
       \/ /\ faults > 0
          /\ StartupFailure(faults - 1)
    /\ UNCHANGED <<RunVars, WorkVars, phases>>

NoTypesMessage == Msg("NoTypes", NoName, "No types decorated with [Object] were discovered in the entry assembly.")

\* moduleInfos = BuildModuleTypeInfos(); an empty list is reported and ends the run
Discover ==
    /\ pc = "HasCall"
    /\ IF Len(moduleInfos) = 0
       THEN ReturnErrorAsync(NoTypesMessage, reports, faults)
       ELSE /\ pc' = "Discovered"
            /\ UNCHANGED <<faults, exitCode, unhandled, reports>>
    /\ phases' = phases \cup {"discovery"}
    /\ UNCHANGED <<RunVars, WorkVars>>

\* Faulty variant: dispatches every call to the invocation handler
IsRegistrationCall_Never(parentName) == FALSE

\* string.IsNullOrEmpty(parentName) selects the registration handler
IsRegistrationCall(parentName) == IsNullOrEmpty(parentName)

\* parentName = await fnCall.ParentNameAsync(), in its own try block, then the dispatch
ParentNameAsync ==
    /\ pc = "Discovered"
    /\ \/ /\ pc' = IF IsRegistrationCall(call.parentName) THEN "Registration" ELSE "Invocation"
          /\ phases' = phases \cup {"parentName"}
          /\ UNCHANGED <<faults, exitCode, unhandled, reports>>
       \/ /\ faults > 0
          /\ Catch(RpcFailure, reports, faults - 1)
          /\ UNCHANGED phases
    /\ UNCHANGED <<RunVars, WorkVars>>

(***************************************************************************)
(* HandleRegistrationAsync.                                                *)
(***************************************************************************)
\* NormalizeDefaultValue and its serialization: the default of a primitive kind
DefaultJson(hasDefault, default) ==
    IF hasDefault /\ default.t \in {"string", "int"}
    THEN IF default.t = "string" THEN JStr(default.s) ELSE JNum(default.n)
    ELSE JNull

\* the first failure among the parts of a definition, in order
FirstFailure(parts) ==
    LET failed == {i \in 1..Len(parts) : ~parts[i].ok}
    IN  IF failed = {} THEN NoEx ELSE parts[FirstIndex(failed)].ex

\* lines 136-170: one argument of the constructor function
ConstructorArg(param) ==
    LET Of(built) ==
            [ok |-> built.ok, ex |-> built.ex,
             Name |-> ToCamelCase(param.Name),
             TypeDef |-> WithOptional(built.typeDef,
                                      built.isNullable \/ param.HasDefaultValue \/ param.IsOptional),
             Default |-> DefaultJson(param.HasDefaultValue, param.DefaultValue)]
    IN  Of(BuildTypeDef(param.ParameterType))

\* lines 176-190: one field of the object
RegisteredField(field) ==
    LET Of(built) ==
            [ok |-> built.ok, ex |-> built.ex,
             Name |-> field.Name,
             TypeDef |-> WithOptional(built.typeDef, built.isNullable)]
    IN  Of(BuildTypeDef(field.PropertyType))

\* Faulty variant: only a nullable type makes a function argument optional
ArgumentIsOptional_NullableOnly(argumentNullable, parameter) == argumentNullable

\* if (argumentNullable || parameter.IsOptional) argumentTypeDef = argumentTypeDef.WithOptional(true)
ArgumentIsOptional(argumentNullable, parameter) == argumentNullable \/ parameter.IsOptional

\* lines 239-282: one argument of a function
FunctionArg(parameter) ==
    LET Of(built) ==
            [ok |-> built.ok, ex |-> built.ex,
             Name |-> parameter.Name,
             TypeDef |-> WithOptional(built.typeDef, ArgumentIsOptional(built.isNullable, parameter)),
             Default |-> DefaultJson(parameter.Parameter.HasDefaultValue, parameter.Parameter.DefaultValue)]
    IN  Of(BuildTypeDef(parameter.ParameterType))

\* if (function.ReturnsVoid || returnIsNullable) returnTypeDef = returnTypeDef.WithOptional(true)
ReturnIsOptional(function, returnIsNullable) == function.ReturnsVoid \/ returnIsNullable

\* lines 193-285: one function of the object, cancellation tokens left out
RegisteredFunction(function) ==
    LET Visible(parameter) == ~parameter.IsCancellationToken
        Args(visible) == [i \in 1..Len(visible) |-> FunctionArg(visible[i])]
        Of(built, args) ==
            [ok |-> built.ok /\ \A i \in 1..Len(args) : args[i].ok,
             ex |-> FirstFailure(<<built>> \o args),
             Name |-> function.Name,
             ReturnType |-> WithOptional(built.typeDef, ReturnIsOptional(function, built.isNullable)),
             Args |-> args]
    IN  Of(BuildTypeDef(function.ReturnType), Args(SelectSeq(function.Parameters, Visible)))

\* lines 120-288: the type definition of one module object
RegisteredObject(info) ==
    LET Of(ctorArgs, fields, functions) ==
            [ok |-> \A i \in 1..Len(ctorArgs \o fields \o functions) : (ctorArgs \o fields \o functions)[i].ok,
             ex |-> FirstFailure(ctorArgs \o fields \o functions),
             Name |-> info.Name,
             HasConstructor |-> info.Constructor.present,
             ConstructorArgs |-> ctorArgs,
             Fields |-> fields,
             Functions |-> functions]
    IN  Of([i \in 1..Len(info.Constructor.params) |-> ConstructorArg(info.Constructor.params[i])],
           [i \in 1..Len(info.Fields) |-> RegisteredField(info.Fields[i])],
           [i \in 1..Len(info.Functions) |-> RegisteredFunction(info.Functions[i])])

\* lines 101-118: the definition of one enum, a member per EnumValueInfo
\* with its name and its value
RegisteredEnum(enumInfo) ==
    [Name |-> enumInfo.Name,
     Members |-> [i \in 1..Len(enumInfo.Values) |->
                    [name |-> enumInfo.Values[i].Name, value |-> enumInfo.Values[i].Value]]]

\* the module definition handed to the engine: the enums, then the objects
\* in discovery order; the first type without a schema mapping aborts the
\* registration
ModuleDefinition(infos, enums) ==
    LET Of(objects) ==
            [ok |-> \A i \in 1..Len(objects) : objects[i].ok,
             ex |-> FirstFailure(objects),
             Enums |-> [i \in 1..Len(enums) |-> RegisteredEnum(enums[i])],
             Objects |-> objects]
    IN  Of([i \in 1..Len(infos) |-> RegisteredObject(infos[i])])

\* the ModuleID of a submitted definition, serialized
ModuleIdJson(infos) == JStr("moduleId")

HandleRegistrationAsync ==
    /\ pc = "Registration"
    /\ phases' = phases \cup {"registration"}
    /\ LET Submit(module) ==
               IF module.ok
               THEN \/ ReturnValueInTry(ModuleIdJson(module), faults)
                    \/ /\ faults > 0
                       /\ Catch(RpcFailure, reports, faults - 1)
               ELSE Catch(module.ex, reports, faults)
       IN  Submit(ModuleDefinition(moduleInfos, enumInfos))
    /\ UNCHANGED <<RunVars, WorkVars>>

(***************************************************************************)
(* HandleInvocationAsync.                                                  *)
(***************************************************************************)
NotRegistered(parentName) == Msg("NotRegistered", parentName, "Module object is not registered.")
FunctionNotFound(name) == Msg("FunctionNotFound", name, "Function not found on module object.")
MissingArgument(name) == Msg("MissingArgument", name, "Missing required argument.")
MissingConstructorArgument(name) == Msg("MissingConstructorArgument", name, "Missing required constructor argument.")

\* Faulty variant: an empty function name is looked up like any other name
IsConstructorCall_Never(functionName) == FALSE

\* string.IsNullOrEmpty(functionName): a constructor-only invocation
IsConstructorCall(functionName) == IsNullOrEmpty(functionName)

\* functionName = await fnCall.NameAsync() before the try block, then the two lookups
LocateTarget ==
    /\ pc = "Invocation"
    /\ phases' = phases \cup {"invocation"}
    /\ \/ /\ faults > 0
          /\ Escape(faults - 1)
          /\ UNCHANGED target
       \/ IF ~HasInfoNamed(moduleInfos, call.parentName)
          THEN /\ ReturnErrorInTry(NotRegistered(call.parentName), faults)
               /\ UNCHANGED target
          ELSE LET t == FirstIndex({i \in 1..Len(moduleInfos) : OrdinalEquals(moduleInfos[i].Name, call.parentName)})
                   fns == moduleInfos[t].Functions
               IN  IF IsConstructorCall(call.name)
                   THEN /\ pc' = "Constructor"
                        /\ target' = [type |-> t, fn |-> 0]
                        /\ UNCHANGED <<faults, exitCode, unhandled, reports>>
                   ELSE IF ~HasInfoNamed(fns, call.name)
                   THEN /\ ReturnErrorInTry(FunctionNotFound(call.name), faults)
                        /\ UNCHANGED target
                   ELSE /\ pc' = "Instantiate"
                        /\ target' = [type |-> t,
                                      fn |-> FirstIndex({j \in 1..Len(fns) : OrdinalEquals(fns[j].Name, call.name)})]
                        /\ UNCHANGED <<faults, exitCode, unhandled, reports>>
    /\ UNCHANGED <<RunVars, instance, ctorProps, written, userCalls, argumentValues, invocationResult, task>>

\* Faulty variant: a declared default is never used
HasDefault_Never(param) == FALSE

\* param.HasDefaultValue
HasDefault(param) == param.HasDefaultValue

\* one constructor argument: from the JSON object, else the default, else null, else an error
ConstructorArgument(param, object) ==
    LET paramName == ToCamelCase(param.Name)
    IN  IF paramName \in DOMAIN object THEN ConvertArgumentAsync(object[paramName], param.ParameterType)
        ELSE IF HasDefault(param) THEN Ok(param.DefaultValue)
        ELSE IF param.IsOptional THEN Ok(NNull)
        ELSE Throw(Ex(MissingConstructorArgument(paramName)))

\* the constructor arguments in order, stopping at the first that fails
ConstructorArguments(params, object) ==
    LET results == [i \in 1..Len(params) |-> ConstructorArgument(params[i], object)]
        failed == {i \in 1..Len(params) : ~results[i].ok}
    IN  IF failed = {} THEN [ok |-> TRUE, values |-> [i \in 1..Len(params) |-> results[i].value], ex |-> NoEx]
        ELSE [ok |-> FALSE, values |-> <<>>, ex |-> results[FirstIndex(failed)].ex]

\* the user constructor run by reflection: the instance, or what reflection
\* throws; moduleInfo.Constructor.Invoke(ctorArgs) and Activator.CreateInstance
\* stand in no try block of their own, so the TargetInvocationException
\* reaches the catch block of the handler as it is
InvokeConstructor(class, params, values) ==
    IF class.CtorBody = "throw"
    THEN [ok |-> FALSE, ran |-> TRUE, ex |-> TargetInvocationException(UserError), props |-> NoObj]
    ELSE [ok |-> TRUE, ran |-> TRUE, ex |-> NoEx, props |-> ConstructorBody(class, params, values)]

\* new instance: the registered constructor on the decoded arguments, or Activator.CreateInstance
CreateInstance(info, object) ==
    IF info.Constructor.present /\ Len(info.Constructor.params) > 0
    THEN LET args == ConstructorArguments(info.Constructor.params, object)
         IN  IF args.ok
             THEN InvokeConstructor(info.ClrType, info.Constructor.params, args.values)
             ELSE [ok |-> FALSE, ran |-> FALSE, ex |-> args.ex, props |-> NoObj]
    ELSE InvokeConstructor(info.ClrType, <<>>, <<>>)

\* HandleConstructorInvocationAsync: the whole handler of a call with an empty function name
HandleConstructorInvocationAsync ==
    /\ pc = "Constructor"
    /\ phases' = phases \cup {"constructor"}
    /\ LET needsArgs == moduleInfo.Constructor.present /\ Len(moduleInfo.Constructor.params) > 0
           created == CreateInstance(moduleInfo, call.inputArgs)
       IN  \/ /\ needsArgs
              /\ faults > 0
              /\ CatchInTry(RpcFailure, reports, faults - 1)
              /\ UNCHANGED <<instance, ctorProps, userCalls>>
           \/ IF created.ok
              THEN /\ instance' = [exists |-> TRUE, props |-> created.props]
                   /\ ctorProps' = created.props
                   /\ userCalls' = [userCalls EXCEPT !.ctor = @ + 1]
                   /\ ReturnValueInConstructorTry(SerializeInstance(moduleInfo.ClrType, created.props), faults)
              ELSE /\ CatchInTry(created.ex, reports, faults)
                   /\ userCalls' = [userCalls EXCEPT !.ctor = IF created.ran THEN @ + 1 ELSE @]
                   /\ UNCHANGED <<instance, ctorProps>>
    /\ UNCHANGED <<RunVars, target, written, argumentValues, invocationResult, task>>

\* lines 349-401: the receiver is built from the parent's serialized state
Instantiate ==
    /\ pc = "Instantiate"
    /\ LET needsParent == moduleInfo.Constructor.present /\ Len(moduleInfo.Constructor.params) > 0
           created == CreateInstance(moduleInfo, call.parent)
       IN  \/ /\ needsParent
              /\ faults > 0
              /\ Catch(RpcFailure, reports, faults - 1)
              /\ UNCHANGED <<instance, ctorProps, userCalls>>
           \/ IF created.ok
              THEN /\ instance' = [exists |-> TRUE, props |-> created.props]
                   /\ ctorProps' = created.props
                   /\ userCalls' = [userCalls EXCEPT !.ctor = @ + 1]
                   /\ pc' = "Populate"
                   /\ UNCHANGED <<faults, exitCode, unhandled, reports>>
              ELSE /\ Catch(created.ex, reports, faults)
                   /\ userCalls' = [userCalls EXCEPT !.ctor = IF created.ran THEN @ + 1 ELSE @]
                   /\ UNCHANGED <<instance, ctorProps>>
    /\ UNCHANGED <<RunVars, phases, target, written, argumentValues, invocationResult, task>>

\* Faulty variant: field population also overwrites what the constructor set
SuppliedByConstructor_Never(info, fieldInfo) == FALSE

\* Faulty variant: no field is populated once a constructor is registered
SuppliedByConstructor_AnyConstructor(info, fieldInfo) == info.Constructor.present

\* ctorParamNames.Contains(fieldInfo.Name)
SuppliedByConstructor(info, fieldInfo) ==
    /\ info.Constructor.present
    /\ fieldInfo.Name \in {ToCamelCase(info.Constructor.params[i].Name) : i \in 1..Len(info.Constructor.params)}

\* lines 403-439: [Field] properties are set from the parent's serialized state
PopulateFields ==
    /\ pc = "Populate"
    /\ LET fields == moduleInfo.Fields
           todo == {i \in 1..Len(fields) :
                        /\ ~SuppliedByConstructor(moduleInfo, fields[i])
                        /\ fields[i].Name \in DOMAIN call.parent}
           results == [i \in todo |-> ConvertArgumentAsync(call.parent[fields[i].Name], fields[i].PropertyType)]
           failed == {i \in todo : ~results[i].ok}
           PropertyOf(i) == fields[i].PropertyInfo.Name
       IN  \/ /\ Len(fields) > 0
              /\ faults > 0
              /\ Catch(RpcFailure, reports, faults - 1)
              /\ UNCHANGED <<instance, written>>
           \/ IF failed = {}
              THEN /\ instance' = [instance EXCEPT !.props =
                            [name \in DOMAIN instance.props |->
                                IF \E i \in todo : PropertyOf(i) = name
                                THEN results[CHOOSE i \in todo : PropertyOf(i) = name].value
                                ELSE instance.props[name]]]
                   /\ written' = {PropertyOf(i) : i \in todo}
                   /\ pc' = "LoadArguments"
                   /\ UNCHANGED <<faults, exitCode, unhandled, reports>>
              ELSE /\ Catch(results[FirstIndex(failed)].ex, reports, faults)
                   /\ UNCHANGED <<instance, written>>
    /\ UNCHANGED <<RunVars, phases, target, ctorProps, userCalls, argumentValues, invocationResult, task>>

\* Faulty variant: a required argument that was left out is passed as null
LoadArgument_NullWhenMissing(parameter, argumentMap) ==
    IF parameter.IsCancellationToken THEN Ok(NToken)
    ELSE IF parameter.Name \notin DOMAIN argumentMap
         THEN IF parameter.Parameter.HasDefaultValue THEN Ok(parameter.Parameter.DefaultValue)
              ELSE Ok(NNull)
    ELSE ConvertArgumentAsync(argumentMap[parameter.Name], parameter.ParameterType)

\* one native argument of the method (lines 603-631)
LoadArgument(parameter, argumentMap) ==
    IF parameter.IsCancellationToken THEN Ok(NToken)
    ELSE IF parameter.Name \notin DOMAIN argumentMap
         THEN IF HasDefault(parameter.Parameter) THEN Ok(parameter.Parameter.DefaultValue)
              ELSE IF parameter.IsOptional THEN Ok(NNull)
              ELSE Throw(Ex(MissingArgument(parameter.Name)))
    ELSE ConvertArgumentAsync(argumentMap[parameter.Name], parameter.ParameterType)

\* LoadArgumentsAsync: the arguments in declaration order, stopping at the first that fails
LoadArguments(parameters, argumentMap) ==
    LET results == [i \in 1..Len(parameters) |-> LoadArgument(parameters[i], argumentMap)]
        failed == {i \in 1..Len(parameters) : ~results[i].ok}
    IN  IF failed = {} THEN [ok |-> TRUE, values |-> [i \in 1..Len(parameters) |-> results[i].value], ex |-> NoEx]
        ELSE [ok |-> FALSE, values |-> <<>>, ex |-> results[FirstIndex(failed)].ex]

LoadArgumentsAsync ==
    /\ pc = "LoadArguments"
    /\ LET loaded == LoadArguments(functionInfo.Parameters, call.inputArgs)
       IN  \/ /\ faults > 0
              /\ Catch(RpcFailure, reports, faults - 1)
              /\ UNCHANGED <<argumentValues, phases>>
           \/ /\ phases' = phases \cup {"arguments"}
              /\ IF loaded.ok
                 THEN /\ argumentValues' = loaded.values
                      /\ pc' = "Invoke"
                      /\ UNCHANGED <<faults, exitCode, unhandled, reports>>
                 ELSE /\ Catch(loaded.ex, reports, faults)
                      /\ UNCHANGED argumentValues
    /\ UNCHANGED <<RunVars, target, instance, ctorProps, written, userCalls, invocationResult, task>>

\* Faulty variant: only Task results are awaited
NeedsAwait_TaskOnly(info) == info.ReturnsTask

\* functionInfo.ReturnsTask / ReturnsValueTask: the result has to be awaited
NeedsAwait(info) == info.ReturnsTask \/ info.ReturnsValueTask

\* functionInfo.Method.Invoke(instance, argumentValues), lines 443-451
InvokeMethod ==
    /\ pc = "Invoke"
    /\ userCalls' = [userCalls EXCEPT !.method = @ + 1]
    /\ LET method == functionInfo.Method
           body == MethodBody(method, moduleInfo.ClrType, instance.props, argumentValues)
           returnsTaskObject == method.ReturnType.shape # "plain"
           next == IF NeedsAwait(functionInfo) THEN "Await" ELSE "Return"
       IN  IF body.threw /\ ~(returnsTaskObject /\ method.IsAsync)
           THEN /\ Catch(UnwrapTargetInvocation(TargetInvocationException(body.ex)), reports, faults)
                /\ UNCHANGED <<instance, invocationResult, task>>
           ELSE /\ instance' = [instance EXCEPT !.props = body.props]
                /\ IF returnsTaskObject
                   THEN /\ invocationResult' = NTask
                        /\ task' = [status |-> IF method.IsAsync THEN "pending" ELSE "completed",
                                    threw |-> body.threw, ex |-> body.ex, result |-> body.result]
                   ELSE /\ invocationResult' = body.result
                        /\ UNCHANGED task
                /\ pc' = next
                /\ UNCHANGED <<faults, exitCode, unhandled, reports>>
    /\ UNCHANGED <<RunVars, phases, target, ctorProps, written, argumentValues>>

\* the user's asynchronous work finishes: the task completes or faults
TaskCompletes ==
    /\ pc \in {"Await", "Return"}
    /\ task.status = "pending"
    /\ task' = [task EXCEPT !.status = IF task.threw THEN "faulted" ELSE "completed"]
    /\ UNCHANGED <<RunVars, pc, faults, exitCode, unhandled, reports, phases, target, instance,
                   ctorProps, written, userCalls, argumentValues, invocationResult>>

\* lines 453-478: the continuation after await; a faulted task rethrows its exception
AwaitResult ==
    /\ pc = "Await"
    /\ task.status \in {"completed", "faulted"}
    /\ IF task.status = "faulted"
       THEN /\ Catch(task.ex, reports, faults)
            /\ UNCHANGED invocationResult
       ELSE /\ invocationResult' = IF IsGenericType(functionInfo.Method.ReturnType) THEN task.result ELSE NNull
            /\ pc' = "Return"
            /\ UNCHANGED <<faults, exitCode, unhandled, reports>>
    /\ UNCHANGED <<RunVars, phases, target, instance, ctorProps, written, userCalls, argumentValues, task>>

\* lines 480-489: the result is encoded and returned
ReturnResult ==
    /\ pc = "Return"
    /\ ReturnValueInTry(NormalizeResultAsync(assembly, invocationResult), faults)
    /\ UNCHANGED <<RunVars, phases, WorkVars>>

(***************************************************************************)
(* The engine chains calls: the object a run returned is the parent state  *)
(* of the next run, a fresh process.                                       *)
(***************************************************************************)
LastReport == reports[Len(reports)]

NextCall ==
    /\ pc = "Done"
    /\ run < MaxRuns
    /\ exitCode = 0
    /\ LastReport.kind = "value"
    /\ LastReport.w.k = "obj"
    /\ LET ty == IF "constructor" \in phases THEN moduleInfo.ClrType.Name ELSE invocationResult.ty
           infos == moduleInfos
           found == {i \in 1..Len(infos) : infos[i].ClrType.Name = ty}
       IN  /\ found # {}
           /\ call' \in CallsOn(infos[FirstIndex(found)], {LastReport.w.o})
           /\ call'.name # NoName
           /\ prev' = IF "constructor" \in phases THEN NoPrev
                      ELSE [exists |-> TRUE, ty |-> ty, o |-> LastReport.w.o]
    /\ run' = run + 1
    /\ pc' = "Start"
    /\ faults' = MaxFaults
    /\ exitCode' = NoExit
    /\ unhandled' = FALSE
    /\ reports' = <<>>
    /\ phases' = {}
    /\ target' = NoTarget
    /\ instance' = NoInstance
    /\ ctorProps' = NoObj
    /\ written' = {}
    /\ userCalls' = NoUserCalls
    /\ argumentValues' = <<>>
    /\ invocationResult' = NNull
    /\ task' = NoTask
    /\ UNCHANGED <<assembly, moduleInfos, probe>>

Next ==
    \/ ClientDag
    \/ CurrentFunctionCall
    \/ Discover
    \/ ParentNameAsync
    \/ HandleRegistrationAsync
    \/ LocateTarget
    \/ HandleConstructorInvocationAsync
    \/ Instantiate
    \/ PopulateFields
    \/ LoadArgumentsAsync
    \/ InvokeMethod
    \/ TaskCompletes
    \/ AwaitResult
    \/ ReturnResult
    \/ NextCall

Spec == Init /\ [][Next]_vars

(***************************************************************************)
(* The functions of the runtime applied one at a time: probe holds the     *)
(* input, and after the application the result.  No call is running.       *)
(***************************************************************************)
\* longest module name enumerated in full
MaxNameLen == 3

Probe(op, input) == [op |-> op, input |-> input, done |-> FALSE, output |-> NoObj]
Applied(output) == [probe EXCEPT !.done = TRUE, !.output = output]

\* declarations of one parameter: every type with every combination of a
\* native default and an [Optional] marker
ParameterTypes == {"int", "int?", "string", "Status", "Container"}
ParameterInputs ==
    {Param(Up("value"), type, hasDefault, IF hasDefault THEN NInt(7) ELSE NNull, isOptional) :
        <<type, hasDefault, isOptional>> \in ParameterTypes \X BOOLEAN \X BOOLEAN}

\* declarations of one method: every return shape around every result type
ReturnInputs ==
    {Method(Up("run"), <<>>, ret, "nothing", ret.shape # "plain") :
        ret \in {Ret("plain", "void"), Ret("Task", "void"), Ret("ValueTask", "void")}
                \cup {Ret(shape, inner) : <<shape, inner>> \in
                        {"plain", "Task<>", "ValueTask<>"} \X {"int", "int?", "string", "Status", "Test"}}}

ToUpperText(text) == [i \in 1..Len(text) |-> ToUpperChar(text[i])]
ToLowerChar(c) ==
    IF IsUpper(c) THEN LowerLetters[CHOOSE i \in 1..Len(UpperLetters) : UpperLetters[i] = c] ELSE c
ToLowerText(text) == [i \in 1..Len(text) |-> ToLowerChar(text[i])]

\* wire strings sent for an enum parameter: the member names in three
\* casings, numbers, lists of names, padded and unknown names, the empty string
EnumTexts ==
    UNION {{StatusEnum.Members[i], ToUpperText(StatusEnum.Members[i]), ToLowerText(StatusEnum.Members[i]),
            <<" ">> \o StatusEnum.Members[i],
            StatusEnum.Members[i] \o <<",">> \o StatusEnum.Members[3],
            StatusEnum.Members[i] \o <<"x">>,
            SubSeq(StatusEnum.Members[i], 1, 5)} : i \in 1..Len(StatusEnum.Members)}
        \cup {<<d>> : d \in {"0", "1", "2", "3", "7"}}
        \cup {<<"-", "1">>, <<"1", "2">>, <<"1", "x">>, <<>>, <<" ">>, <<"N", "o", "n", "e">>}

\* wire values sent for a remote-object parameter, for each target type
Ids == {"ctr-1", "dir-2", "", " "}
RemoteWires ==
    {JStr(id) : id \in Ids}
        \cup {JObj([key \in {Lo("id")} |-> JStr(id)]) : id \in Ids}
        \cup {JObj([key \in {Lo("id"), Lo("name")} |-> JStr(id)]) : id \in Ids}
        \cup {JObj([key \in {Lo("id")} |-> JNull]), JObj([key \in {Lo("id")} |-> JNum(5)]),
              JObj([key \in {Lo("name")} |-> JStr("ctr-1")]), JObj(NoObj), JNum(5)}
RemoteInputs == {[element |-> element, targetType |-> type] :
                    <<element, type>> \in RemoteWires \X DaggerObjectTypes}

\* instances of the data objects: an Envelope around a Payload or around null
PayloadValues ==
    {NObject(Up("payload"), [name \in {Up("text"), Up("secret")} |->
                                IF name = Up("text") THEN text ELSE NStr("s")]) :
        text \in {NStr("a"), NStr(""), NNull}}
EnvelopeValues ==
    {NObject(Up("envelope"), [name \in {Up("label"), Up("inner"), Up("draft")} |->
                                IF name = Up("label") THEN label
                                ELSE IF name = Up("inner") THEN inner ELSE draft]) :
        <<label, inner, draft>> \in {NStr("a"), NNull} \X (PayloadValues \cup {NNull}) \X {NStr("d"), NNull}}
ObjectInputs == PayloadValues \cup EnvelopeValues

\* module names: every name of up to MaxNameLen characters over a small
\* alphabet, and the names of the documentation
NameAlphabet == {"a", "B", "1", "-", "_"}
DocumentedNames ==
    {<<"m", "y", "-", "m", "o", "d", "u", "l", "e">>, <<"m", "y", "_", "m", "o", "d", "u", "l", "e">>,
     <<"1", "2", "3", "t", "e", "s", "t">>, <<"1", "2", "3">>, <<"m", "y", " ", "a", "p", "p">>}
ModuleNames ==
    UNION {[1..n -> NameAlphabet] : n \in 0..MaxNameLen} \cup DocumentedNames

ProgramVars == <<assembly, moduleInfos, call, run, prev, pc, faults, exitCode, unhandled, reports, phases, target,
                 instance, ctorProps, written, userCalls, argumentValues, invocationResult, task>>

\* wire integers of the signed 32-bit range around the limits of the 8-bit,
\* the 16-bit and the 32-bit integers, each for the three integer targets
MaxInt32 == 2147483647
WireIntegers ==
    UNION {{limit - 2, limit - 1, limit, limit + 1, 0 - limit - 1, 0 - limit, 1 - limit, 2 - limit} :
            limit \in {1, 128, 256, 32768, 65536}}
        \cup {MaxInt32, MaxInt32 - 1, MaxInt32 - 65536, 0 - MaxInt32, 0 - MaxInt32 - 1, 65536 - MaxInt32}
IntegerInputs == {[n |-> n, targetType |-> type] : n \in WireIntegers, type \in {"int", "short", "byte"}}

FunctionInit ==
    /\ assembly = "codec"
    /\ moduleInfos = BuildModuleTypeInfos(assembly)
    /\ call = RegistrationCall
    /\ run = 1
    /\ prev = NoPrev
    /\ pc = "Start"
    /\ faults = MaxFaults
    /\ exitCode = NoExit
    /\ unhandled = FALSE
    /\ reports = <<>>
    /\ phases = {}
    /\ target = NoTarget
    /\ instance = NoInstance
    /\ ctorProps = NoObj
    /\ written = {}
    /\ userCalls = NoUserCalls
    /\ argumentValues = <<>>
    /\ invocationResult = NNull
    /\ task = NoTask
    /\ \/ probe \in {Probe("parameter", input) : input \in ParameterInputs}
       \/ probe \in {Probe("return", input) : input \in ReturnInputs}
       \/ probe \in {Probe("enum", input) : input \in EnumTexts}
       \/ probe \in {Probe("remote", input) : input \in RemoteInputs}
       \/ probe \in {Probe("object", input) : input \in ObjectInputs}
       \/ probe \in {Probe("moduleName", input) : input \in ModuleNames}
       \/ probe \in {Probe("integer", input) : input \in IntegerInputs}

Pending(op) == probe.op = op /\ ~probe.done

\* BuildModuleTypeInfos discovers the parameter, HandleRegistrationAsync registers it
DiscoverParameter ==
    /\ Pending("parameter")
    /\ LET parameter == ParameterMetadata(probe.input)
       IN  probe' = Applied([metadata |-> parameter, argument |-> FunctionArg(parameter)])
    /\ UNCHANGED ProgramVars

\* BuildModuleTypeInfos discovers the method, HandleRegistrationAsync registers it
RegisterReturnType ==
    /\ Pending("return")
    /\ LET function == FunctionInfo(probe.input)
       IN  probe' = Applied([function |-> RegisteredFunction(function),
                             mapped |-> BuildTypeDef(function.ReturnType)])
    /\ UNCHANGED ProgramVars

\* ConvertArgumentAsync with an enum target
DecodeEnum ==
    /\ Pending("enum")
    /\ probe' = Applied(ConvertArgumentAsync(JStr(probe.input), StatusEnum.Type))
    /\ UNCHANGED ProgramVars

\* ConvertArgumentAsync with an integer target
DecodeInteger ==
    /\ Pending("integer")
    /\ probe' = Applied(ConvertArgumentAsync(JNum(probe.input.n), probe.input.targetType))
    /\ UNCHANGED ProgramVars

\* ConvertArgumentAsync with a remote-object target
DecodeRemoteObject ==
    /\ Pending("remote")
    /\ probe' = Applied(ConvertArgumentAsync(probe.input.element, probe.input.targetType))
    /\ UNCHANGED ProgramVars

\* NormalizeResultAsync of a data object
EncodeObject ==
    /\ Pending("object")
    /\ probe' = Applied(NormalizeResultAsync(assembly, probe.input))
    /\ UNCHANGED ProgramVars

\* CodegenBase names the class of a new module
NameModuleClass ==
    /\ Pending("moduleName")
    /\ probe' = Applied(toPascalCase(probe.input))
    /\ UNCHANGED ProgramVars

FunctionNext ==
    \/ DiscoverParameter
    \/ RegisterReturnType
    \/ DecodeEnum
    \/ DecodeRemoteObject
    \/ EncodeObject
    \/ NameModuleClass
    \/ DecodeInteger

FunctionSpec == FunctionInit /\ [][FunctionNext]_vars

TypeOK ==
    /\ pc \in {"Start", "HasDag", "HasCall", "Discovered", "Registration", "Invocation", "Constructor",
               "Instantiate", "Populate", "LoadArguments", "Invoke", "Await", "Return", "Done"}
    /\ exitCode \in {NoExit, 0, 1}
    /\ faults \in 0..MaxFaults
    /\ run \in 1..MaxRuns

(***************************************************************************)
(* Properties.                                                             *)
(***************************************************************************)
Reported(kind) == \E i \in 1..Len(reports) : reports[i].kind = kind
ReportedError(m) == \E i \in 1..Len(reports) : reports[i] = ErrorReport(m)
HandlerEntered == phases \cap {"registration", "invocation"} # {}
NoFault == faults = MaxFaults
TargetsFunction == target.fn # 0

\* C1: once a handler runs, every failure of the registration or invocation
\* phase is caught and reported; RunAsync never ends with an unhandled exception
C1_EveryFailureCaught == HandlerEntered => ~unhandled

FunctionThrew ==
    /\ TargetsFunction
    /\ userCalls.method = 1
    /\ functionInfo.Method.Body = "throw"

\* C4: when the user function throws an exception with message m, returnError
\* is called with exactly m and returnValue is never called
C4_UserErrorMessageReported ==
    FunctionThrew =>
        /\ ~Reported("value")
        /\ \A i \in 1..Len(reports) : reports[i] = ErrorReport(UserError.Message)
        /\ pc = "Done" => Len(reports) = 1

C4_Witness ==
    /\ FunctionThrew
    /\ pc = "Done"
    /\ functionInfo.Method.ReturnType.shape = "plain"
    /\ reports = <<ErrorReport(UserError.Message)>>

\* the engine-visible parameters of the target function that the call omits
\* and that have neither a native default nor optionality
OmittedRequired ==
    {i \in 1..Len(functionInfo.Parameters) :
        LET p == functionInfo.Parameters[i]
        IN  /\ ~p.IsCancellationToken
            /\ p.Name \notin DOMAIN call.inputArgs
            /\ ~p.Parameter.HasDefaultValue
            /\ ~p.IsOptional}

\* C5 (as stated, for runs in which no RPC fails and the receiver is built):
\* every omitted required parameter is named by the reported error, the method
\* is not invoked and returnValue is not called
C5_EveryOmittedParameterNamed ==
    (TargetsFunction /\ NoFault /\ instance.exists) =>
        \A i \in OmittedRequired :
            /\ userCalls.method = 0
            /\ ~Reported("value")
            /\ pc = "Done" => ReportedError(MissingArgument(functionInfo.Parameters[i].Name))

\* parameters declared before i that the call supplies with a value that does not decode
UndecodableBefore(i) ==
    {j \in 1..(i - 1) :
        LET p == functionInfo.Parameters[j]
        IN  /\ p.Name \in DOMAIN call.inputArgs
            /\ ~ConvertArgumentAsync(call.inputArgs[p.Name], p.ParameterType).ok}

\* C5 (amended): with a required parameter omitted the method is never invoked
\* and returnValue is never called; once the input arguments have been read the
\* run reports exactly one error, and it names the first omitted required
\* parameter when every parameter declared before it decodes
C5_FirstOmittedParameterNamed ==
    (TargetsFunction /\ OmittedRequired # {}) =>
        /\ userCalls.method = 0
        /\ ~Reported("value")
        /\ (pc = "Done" /\ "arguments" \in phases) =>
                LET first == FirstIndex(OmittedRequired)
                IN  /\ Len(reports) = 1 /\ reports[1].kind = "error"
                    /\ UndecodableBefore(first) = {} =>
                            reports = <<ErrorReport(MissingArgument(functionInfo.Parameters[first].Name))>>

C5_Witness ==
    /\ TargetsFunction
    /\ pc = "Done"
    /\ "arguments" \in phases
    /\ Cardinality(OmittedRequired) = 2
    /\ reports = <<ErrorReport(MissingArgument(Lo("arg1")))>>
    /\ userCalls = [ctor |-> 1, method |-> 0]

\* the call names a registered module type and carries an empty function name
ConstructorOnlyCall ==
    /\ HasInfoNamed(moduleInfos, call.parentName)
    /\ call.name = NoName

ConstructorNamedFields ==
    {i \in 1..Len(moduleInfo.Fields) :
        /\ moduleInfo.Constructor.present
        /\ \E j \in 1..Len(moduleInfo.Constructor.params) :
                ToCamelCase(moduleInfo.Constructor.params[j].Name) = ToCamelCase(moduleInfo.Fields[i].Name)}

PropertyOfField(i) == moduleInfo.Fields[i].PropertyInfo.Name

\* C7: after field population, every Field named like a constructor parameter
\* still holds the value the constructor set; population did not write it
C7_ConstructorValueRetained ==
    (TargetsFunction /\ pc = "LoadArguments") =>
        \A i \in ConstructorNamedFields :
            /\ instance.props[PropertyOfField(i)] = ctorProps[PropertyOfField(i)]
            /\ PropertyOfField(i) \notin written

C7_Witness ==
    /\ TargetsFunction
    /\ pc = "LoadArguments"
    /\ \E i \in ConstructorNamedFields :
            /\ moduleInfo.Fields[i].Name \in DOMAIN call.parent
            /\ call.parent[moduleInfo.Fields[i].Name] = JNull
            /\ instance.props[PropertyOfField(i)] = NStr("anon")

C9_AwaitedResultReported ==
    (TargetsFunction /\ functionInfo.Method.ReturnType.shape # "plain" /\ Reported("value")) =>
        /\ task.status = "completed"
        /\ reports[1] = ValueReport(IF IsGenericType(functionInfo.Method.ReturnType)
                                    THEN NormalizeResultAsync(assembly, task.result)
                                    ELSE JNull)

C9_Witness ==
    /\ TargetsFunction
    /\ functionInfo.Method.ReturnType.shape = "ValueTask<>"
    /\ pc = "Done"
    /\ reports = <<ValueReport(JNum(42))>>

\* C10: each engine-visible argument handed to the method is the decoded wire
\* value when supplied, else the declared default, else null
C10_ArgumentPrecedence ==
    (TargetsFunction /\ pc = "Invoke") =>
        \A i \in 1..Len(functionInfo.Parameters) :
            LET p == functionInfo.Parameters[i]
            IN  ~p.IsCancellationToken =>
                    argumentValues[i] =
                        IF p.Name \in DOMAIN call.inputArgs
                        THEN ConvertArgumentAsync(call.inputArgs[p.Name], p.ParameterType).value
                        ELSE IF p.Parameter.HasDefaultValue THEN p.Parameter.DefaultValue
                        ELSE NNull

C10_Witness ==
    /\ TargetsFunction
    /\ pc = "Invoke"
    /\ call.name = Lo("add")
    /\ Lo("b") \notin DOMAIN call.inputArgs
    /\ argumentValues = <<NInt(5), NInt(10)>>

Applies(op) == probe.op = op /\ probe.done

\* C11: over the matrix of native default, [Optional] marker and nullable
\* type, a discovered function parameter is optional exactly when it has a
\* native default, or is declared optional, or its type is nullable, and it is
\* registered with an optional type in exactly those cases
C11_OptionalIffDefaultOrDeclaredOrNullable ==
    Applies("parameter") =>
        LET declared == probe.input
            expected == declared.HasDefaultValue \/ declared.IsOptional
                            \/ declared.ParameterType = "int?"
        IN  /\ probe.output.metadata.IsOptional = expected
            /\ probe.output.argument.ok
            /\ probe.output.argument.TypeDef.Optional = expected

\* a parameter of a non-nullable type with a native default and no [Optional]
\* marker was registered optional
C11_Witness ==
    /\ Applies("parameter")
    /\ probe.input.ParameterType = "int"
    /\ probe.input.HasDefaultValue
    /\ ~probe.input.IsOptional
    /\ probe.output.metadata.IsOptional
    /\ probe.output.argument.TypeDef.Optional

\* C12: when the RPC client cannot be constructed, or the current function
\* call cannot be resolved, RunAsync returns exit code 1 without calling
\* returnError or returnValue and without type discovery or user code
StartupFailed == pc = "Done" /\ "discovery" \notin phases
C12_StartupFailureExitsOne ==
    StartupFailed =>
        /\ exitCode = 1
        /\ ~unhandled
        /\ reports = <<>>
        /\ phases = {}
        /\ userCalls = NoUserCalls
        /\ target = NoTarget
        /\ ~instance.exists

\* a run that ended before discovery, with exit code 1 and nothing reported
C12_Witness ==
    /\ StartupFailed
    /\ faults < MaxFaults
    /\ exitCode = 1
    /\ reports = <<>>

\* C13: the functions registered for a module type, and those invocation can
\* dispatch to, are exactly its public, instance, non-special-name methods
\* that carry [Function] and are not marked ignored; invoking any other method
\* name reports 'function not found' and executes no method
MayBeExposed(method) ==
    method.IsPublic /\ ~method.IsSpecialName /\ method.FunctionAttr /\ ~method.IgnoreAttr
ExposedNames(type) ==
    {ToCamelCase(Coalesce(type.Methods[i].AttrName, type.Methods[i].Name)) :
        i \in {j \in 1..Len(type.Methods) : MayBeExposed(type.Methods[j])}}
CallsUnexposedName ==
    /\ call.parentName # NoName
    /\ call.name # NoName
    /\ HasInfoNamed(moduleInfos, call.parentName)
    /\ call.name \notin ExposedNames(InfoNamed(moduleInfos, call.parentName).ClrType)
C13_OnlyExposedMethodsDispatched ==
    /\ "discovery" \in phases =>
          \A i \in 1..Len(moduleInfos) :
              {moduleInfos[i].Functions[j].Name : j \in 1..Len(moduleInfos[i].Functions)}
                  = ExposedNames(moduleInfos[i].ClrType)
    /\ CallsUnexposedName =>
          /\ userCalls.method = 0
          /\ (pc = "Done" /\ NoFault) => reports = <<ErrorReport(FunctionNotFound(call.name))>>

\* C14: decoding a wire string against an enum target yields member M whenever
\* the string equals M's name under case-insensitive comparison, and fails
\* with a decode error for every wire string that is not the name of a member
NamedMembers(text) ==
    {i \in 1..Len(StatusEnum.Members) : ToUpperText(StatusEnum.Members[i]) = ToUpperText(text)}
C14_EnumDecodesMemberNamesOnly ==
    Applies("enum") =>
        IF NamedMembers(probe.input) # {}
        THEN /\ probe.output.ok
             /\ probe.output.value = NEnum(StatusEnum.Type, FirstIndex(NamedMembers(probe.input)) - 1)
        ELSE ~probe.output.ok

\* C15: decoding a wire value for a remote-object target invokes the
\* load-by-ID accessor of the target type with exactly the ID supplied, as a
\* bare string or as the id field of an object, and returns the handle it
\* produced; a wire value without an ID decodes to null and invokes no loader;
\* an ID for a target type without a loader is a hard error
WireId(element) ==
    IF element.k = "str" THEN element.s
    ELSE IF element.k = "obj" /\ Lo("id") \in DOMAIN element.o /\ element.o[Lo("id")].k = "str"
         THEN element.o[Lo("id")].s
         ELSE ""
IdIsText(element) ==
    (element.k = "obj" /\ Lo("id") \in DOMAIN element.o) => element.o[Lo("id")].k \in {"str", "null"}
CarriesId(element) == WireId(element) \notin {"", " "}
EncodedText(value) == IF value.t = "null" THEN JNull ELSE JStr(value.s)
EncodedPayload(value) ==
    IF value.t = "null" THEN JNull
    ELSE JObj([key \in {Lo("body")} |-> EncodedText(value.props[Up("text")])])
EncodedEnvelope(value) ==
    JObj([key \in {Lo("label"), Lo("inner")} |->
            IF key = Lo("label") THEN EncodedText(value.props[Up("label")])
            ELSE EncodedPayload(value.props[Up("inner")])])
C16_ObjectEncodedAsItsFields ==
    Applies("object") =>
        /\ probe.output.k = "obj"
        /\ probe.input.ty = Up("payload") =>
              /\ DOMAIN probe.output.o = {Lo("body")}
              /\ probe.output = EncodedPayload(probe.input)
        /\ probe.input.ty = Up("envelope") =>
              /\ DOMAIN probe.output.o = {Lo("label"), Lo("inner")}
              /\ probe.output = EncodedEnvelope(probe.input)

\* an Envelope holding a Payload was encoded: two keys, the inner object
\* encoded as a map of its own single field
C16_Witness ==
    /\ Applies("object")
    /\ probe.input.ty = Up("envelope")
    /\ probe.input.props[Up("inner")].t = "object"
    /\ probe.input.props[Up("draft")].t = "string"
    /\ DOMAIN probe.output.o = {Lo("label"), Lo("inner")}
    /\ probe.output.o[Lo("inner")] = JObj([key \in {Lo("body")} |-> JStr("a")])

\* C17: a function declared to return nothing (void, Task, ValueTask) or a
\* nullable type is registered with its return type marked optional, whatever
\* kind it maps to, and the type mapper reports the void kind as nullable
\* whatever nullability it recorded
ReturnsNothing(ret) == ret.shape \in {"Task", "ValueTask"} \/ ret.inner = "void"
ReturnsNullable(ret) == ~ReturnsNothing(ret) /\ ret.inner = "int?"
C17_VoidAndNullableReturnOptional ==
    Applies("return") =>
        LET ret == probe.input.ReturnType
        IN  /\ (ReturnsNothing(ret) \/ ReturnsNullable(ret)) =>
                  /\ probe.output.function.ok
                  /\ probe.output.function.ReturnType.Optional
            /\ ReturnsNothing(ret) => probe.output.mapped.typeDef.Kind = "VOID_KIND"
            /\ ReturnsNullable(ret) => probe.output.function.ReturnType.Kind = "INTEGER_KIND"
            /\ probe.output.mapped.typeDef.Kind = "VOID_KIND" => probe.output.mapped.isNullable

\* a method returning a non-generic Task was registered with an optional
\* return type of the void kind
C17_Witness ==
    /\ Applies("return")
    /\ probe.input.ReturnType.shape = "Task"
    /\ probe.output.function.ReturnType = WithOptional(TypeDef("VOID_KIND", ""), TRUE)
    /\ probe.output.mapped.isNullable

\* C18: functions, their parameters, constructor parameters and fields are
\* registered under the camel-case form of their native or overridden names;
\* every function name and parameter name registration emits is found again
\* by exact match at invocation; normalizing twice equals normalizing once
IsCamelCase(name) == name.c = "lower"
NativeNames(type) ==
    {type.Methods[i].Name : i \in 1..Len(type.Methods)}
        \cup {type.Properties[i].Name : i \in 1..Len(type.Properties)}
        \cup UNION {{type.Methods[i].Parameters[j].Name : j \in 1..Len(type.Methods[i].Parameters)} :
                        i \in 1..Len(type.Methods)}
        \cup UNION {{type.Constructors[i][j].Name : j \in 1..Len(type.Constructors[i])} :
                        i \in 1..Len(type.Constructors)}
        \cup {NoName}
RegisteredUnderCamelCase(object, info) ==
    /\ \A j \in 1..Len(object.Functions) :
          LET function == object.Functions[j]
          IN  /\ IsCamelCase(function.Name)
              /\ HasInfoNamed(info.Functions, function.Name)
              /\ Cardinality({m \in 1..Len(info.Functions) : info.Functions[m].Name = function.Name}) = 1 =>
                    InfoNamed(info.Functions, function.Name).Method = info.Functions[j].Method
              /\ \A k \in 1..Len(function.Args) :
                    /\ IsCamelCase(function.Args[k].Name)
                    /\ \E p \in 1..Len(info.Functions[j].Parameters) :
                          LoadArgument(info.Functions[j].Parameters[p],
                                       [key \in {function.Args[k].Name} |-> JNull]).ok
    /\ \A j \in 1..Len(object.ConstructorArgs) :
          /\ IsCamelCase(object.ConstructorArgs[j].Name)
          /\ object.ConstructorArgs[j].Name = ToCamelCase(info.Constructor.params[j].Name)
    /\ \A j \in 1..Len(object.Fields) : IsCamelCase(object.Fields[j].Name)
C18_NamesCamelCasedAndFoundAgain ==
    /\ pc \in {"Registration", "Invocation"} =>
          LET module == ModuleDefinition(moduleInfos, enumInfos)
          IN  \A i \in 1..Len(module.Objects) :
                  /\ RegisteredUnderCamelCase(module.Objects[i], moduleInfos[i])
                  /\ \A name \in NativeNames(moduleInfos[i].ClrType) :
                        ToCamelCase(ToCamelCase(name)) = ToCamelCase(name)
    /\ (/\ HasInfoNamed(moduleInfos, call.parentName)
        /\ \E j \in 1..Len(InfoNamed(moduleInfos, call.parentName).Functions) :
              RegisteredFunction(InfoNamed(moduleInfos, call.parentName).Functions[j]).Name = call.name) =>
          ~ReportedError(FunctionNotFound(call.name))

\* the method Add, registered as add with arguments a and b, was found under
\* that name and received the argument sent as a
C18_Witness ==
    /\ pc = "Done"
    /\ call.name = Lo("add")
    /\ TargetsFunction
    /\ functionInfo.Method.Name = Up("add")
    /\ Lo("a") \in DOMAIN call.inputArgs
    /\ call.inputArgs[Lo("a")] = JNum(5)
    /\ userCalls.method = 1
    /\ Len(argumentValues) = 2
    /\ argumentValues[1] = NInt(5)

\* C19: toPascalCase gives a valid PascalCase identifier as documented:
\* "my-module" and "my_module" give "MyModule", "123test" gives "Test123", and
\* the empty name and every name without a letter give "DaggerModule"
HasLetter(name) == \E i \in 1..Len(name) : IsUpper(name[i]) \/ IsLower(name[i])
C19_PascalCaseAsDocumented ==
    Applies("moduleName") =>
        /\ probe.input = <<"m", "y", "-", "m", "o", "d", "u", "l", "e">> =>
              probe.output = <<"M", "y", "M", "o", "d", "u", "l", "e">>
        /\ probe.input = <<"m", "y", "_", "m", "o", "d", "u", "l", "e">> =>
              probe.output = <<"M", "y", "M", "o", "d", "u", "l", "e">>
        /\ probe.input = <<"1", "2", "3", "t", "e", "s", "t">> =>
              probe.output = <<"T", "e", "s", "t", "1", "2", "3">>
        /\ ~HasLetter(probe.input) => probe.output = DaggerModule
        /\ IsUpper(probe.output[1])

\* C20: in the invocation phase the module type and then the function are
\* located by exact, case-sensitive name match before any instance exists: when
\* either lookup fails the run calls returnError, runs no user constructor and
\* no user method, and never calls returnValue
DeclaresType(name) ==
    \E i \in 1..Len(moduleInfos) : moduleInfos[i].Name = name
DeclaresFunction(typeName, name) ==
    \E i \in 1..Len(moduleInfos) :
        /\ moduleInfos[i].Name = typeName
        /\ \E j \in 1..Len(moduleInfos[i].Functions) : moduleInfos[i].Functions[j].Name = name
LookupFails ==
    /\ "invocation" \in phases
    /\ \/ ~DeclaresType(call.parentName)
       \/ call.name # NoName /\ ~DeclaresFunction(call.parentName, call.name)
C20_LookupBeforeInstance ==
    LookupFails =>
        /\ userCalls = NoUserCalls
        /\ ~instance.exists
        /\ target = NoTarget
        /\ ~Reported("value")
        /\ (pc = "Done" /\ NoFault) =>
              /\ exitCode = 1
              /\ reports = <<ErrorReport(IF DeclaresType(call.parentName)
                                          THEN FunctionNotFound(call.name)
                                          ELSE NotRegistered(call.parentName))>>

\* the type Test exists, the function was sent in its native spelling
\* WithValue: the lookup failed and the error was reported
C20_Witness ==
    /\ pc = "Done"
    /\ call.parentName = Up("test")
    /\ call.name = Up("withValue")
    /\ reports = <<ErrorReport(FunctionNotFound(Up("withValue")))>>
    /\ userCalls = NoUserCalls

\* ---- C21 -------------------------------------------------------------------
\* the types the schema has a mapping for (section 4.1), over the types of
\* the model
SchemaMapped(type) ==
    \/ UnderlyingType(type) \in {"string", "int", "short", "byte", "void"}
    \/ IsEnum(UnderlyingType(type))
    \/ IsDaggerObject(type)
    \/ IsModuleObjectType(type)

\* the types registration has to map: constructor parameters, fields,
\* engine-visible function parameters and return types of the discovered types
DeclaredTypes(infos) ==
    UNION {{infos[i].Constructor.params[j].ParameterType : j \in 1..Len(infos[i].Constructor.params)}
            \cup {infos[i].Fields[j].PropertyType : j \in 1..Len(infos[i].Fields)}
            \cup UNION {{infos[i].Functions[j].ReturnType}
                          \cup {infos[i].Functions[j].Parameters[k].ParameterType :
                                  k \in {l \in 1..Len(infos[i].Functions[j].Parameters) :
                                          ~infos[i].Functions[j].Parameters[l].IsCancellationToken}} :
                        j \in 1..Len(infos[i].Functions)} :
           i \in 1..Len(infos)}
UnmappedTypes == {type \in DeclaredTypes(moduleInfos) : ~SchemaMapped(type)}

\* C21: registration is all-or-nothing: when a constructor parameter, field,
\* function parameter or return type of a discovered module type has no schema
\* mapping, the registration handler reports the failure through returnError,
\* naming the unsupported type, and never calls returnValue
C21_UnmappedTypeFailsRegistration ==
    ("registration" \in phases /\ UnmappedTypes # {}) =>
        /\ ~Reported("value")
        /\ pc = "Done" =>
              /\ Len(reports) = 1
              /\ \E type \in UnmappedTypes : reports[1] = ErrorReport(NotSupported(type).Message)
              /\ NoFault => exitCode = 1

\* the module whose function returns a Stream was registered: one error
\* report naming the type, exit code 1, and no value
C21_Witness ==
    /\ assembly = "unmappedReturn"
    /\ "registration" \in phases
    /\ pc = "Done"
    /\ reports = <<ErrorReport(NotSupported("Stream").Message)>>
    /\ exitCode = 1

\* ---- C22 -------------------------------------------------------------------
\* the module definition of this run
registeredModule == ModuleDefinition(moduleInfos, enumInfos)
Registered == "registration" \in phases /\ Reported("value")

\* C22: for every member of every exposed enum the wire value registered
\* with the engine equals the member's declared constant name (no override is
\* set), and the members are registered in declaration order
C22_EnumWireValueIsConstantName ==
    Registered =>
        \A i \in 1..Len(registeredModule.Enums) :
            LET declared == enumInfos[i].EnumType.Members
                members == registeredModule.Enums[i].Members
            IN  /\ Len(members) = Len(declared)
                /\ \A j \in 1..Len(members) :
                      /\ members[j].name = declared[j]
                      /\ members[j].value = declared[j]

\* ---- C23 -------------------------------------------------------------------
\* the enums a type of the module definition refers to: constructor
\* parameters, fields, function parameters and return types
ReferencedEnums ==
    {EnumOf(UnderlyingType(type)) : type \in {t \in DeclaredTypes(moduleInfos) : IsEnum(UnderlyingType(t))}}

\* C23: only enums carrying the enum-exposure marker are registered, and
\* registration fails with a reported error whenever a parameter, field or
\* return type is an enum that does not carry the marker
C23_UnmarkedEnumFailsRegistration ==
    /\ \A i \in 1..Len(enumInfos) : enumInfos[i].EnumType.EnumAttr
    /\ ("registration" \in phases /\ \E enum \in ReferencedEnums : ~enum.EnumAttr) =>
          /\ ~Reported("value")
          /\ pc = "Done" => Reported("error")

\* ---- C24 -------------------------------------------------------------------
\* n and m leave the same remainder
Congruent(n, m, modulus) == n % modulus = m % modulus

\* C24: decoding a wire integer n of the signed 32-bit range into a narrower
\* integer target performs no overflow check: a 16-bit target yields the
\* signed 16-bit value congruent to n modulo 2^16, an 8-bit target yields n
\* modulo 2^8, without any error; values that fit decode to themselves
C24_NarrowingWrapsSilently ==
    Applies("integer") =>
        LET n == probe.input.n
            decoded == probe.output
        IN  /\ decoded.ok
            /\ decoded.value.t = "int"
            /\ probe.input.targetType = "short" =>
                  /\ decoded.value.n \in (0 - 32768)..32767
                  /\ Congruent(decoded.value.n, n, 65536)
                  /\ n \in (0 - 32768)..32767 => decoded.value.n = n
            /\ probe.input.targetType = "byte" =>
                  /\ decoded.value.n \in 0..255
                  /\ Congruent(decoded.value.n, n, 256)
                  /\ n \in 0..255 => decoded.value.n = n
            /\ probe.input.targetType = "int" => decoded.value.n = n

\* 32768 was decoded into a 16-bit target without error: the result is -32768
C24_Witness ==
    /\ Applies("integer")
    /\ probe.input = [n |-> 32768, targetType |-> "short"]
    /\ probe.output.ok
    /\ probe.output.value = NInt(0 - 32768)

\* 257 was decoded into an 8-bit target without error: the result is 1
C24_WitnessByte ==
    /\ Applies("integer")
    /\ probe.input = [n |-> 257, targetType |-> "byte"]
    /\ probe.output = Ok(NInt(1))

\* ---- C25 -------------------------------------------------------------------
\* the classes of the entry assembly, and what discovery finds on one of them
DeclaredClasses == {EntryAssembly(assembly)[i] : i \in 1..Len(EntryAssembly(assembly))}
ListedClasses == {moduleInfos[i].ClrType : i \in 1..Len(moduleInfos)}
DeclaresFunctionOrField(class) ==
    \/ \E i \in 1..Len(class.Methods) :
          class.Methods[i].IsPublic /\ ~class.Methods[i].IsSpecialName /\ class.Methods[i].FunctionAttr
    \/ \E i \in 1..Len(class.Properties) : class.Properties[i].FieldAttr

\* C25: a type of the entry assembly appears in the module-type list exactly
\* when it carries the module-object marker and has at least one discovered
\* function or field, and it appears once; a marked type with neither is dropped
C25_ListedIffMarkedAndContributes ==
    "discovery" \in phases =>
        /\ \A class \in DeclaredClasses :
              class \in ListedClasses <=> (class.ObjectAttr /\ DeclaresFunctionOrField(class))
        /\ ListedClasses \subseteq DeclaredClasses
        /\ Cardinality(ListedClasses) = Len(moduleInfos)

\* discovery ran over the module that declares Test, the unmarked Helper and
\* the marked but empty Empty: Test is listed, Helper and Empty are not
C25_Witness ==
    /\ "discovery" \in phases
    /\ {TestClass, HelperClass, EmptyClass} \subseteq DeclaredClasses
    /\ TestClass \in ListedClasses
    /\ HelperClass \notin ListedClasses
    /\ EmptyClass \notin ListedClasses

OptionalConstructorParameters ==
    IF target.type = 0 THEN {}
    ELSE {ToCamelCase(moduleInfo.Constructor.params[i].Name) :
            i \in {j \in 1..Len(moduleInfo.Constructor.params) :
                    ConstructorArg(moduleInfo.Constructor.params[j]).TypeDef.Optional}}

\* C27: registration and invocation agree on constructor optionality: a
\* constructor parameter that registration marks optional (nullable type,
\* native default or declared optional) can be omitted at invocation; when its
\* key is absent from the parent state, or from the input arguments of a
\* constructor-only call, construction proceeds with the default or null and
\* 'missing required constructor argument' is never reported for it
C27_OptionalConstructorParameterMayBeOmitted ==
    \A name \in OptionalConstructorParameters :
        ~ReportedError(MissingConstructorArgument(name))

\* ---- C29 -------------------------------------------------------------------
\* the constructor of the located type throws
ConstructorThrew ==
    /\ target.type # 0
    /\ moduleInfo.ClrType.CtorBody = "throw"
    /\ userCalls.ctor > 0

\* C29: when the user's constructor throws with message m while the module
\* object is instantiated, for a function invocation or for a constructor-only
\* call, the error reported through returnError carries exactly m, as it does
\* for an exception thrown by the function body
C29_ConstructorErrorReportedAsThrown ==
    (ConstructorThrew /\ pc = "Done") =>
        /\ Len(reports) >= 1
        /\ reports[1] = ErrorReport(UserError.Message)

\* ---- C28 -------------------------------------------------------------------
\* the type definitions the type mapper emitted for this module: those of
\* constructor arguments, fields, function arguments and return types
EmittedTypeDefs ==
    UNION {{registeredModule.Objects[i].ConstructorArgs[j].TypeDef :
                j \in 1..Len(registeredModule.Objects[i].ConstructorArgs)}
            \cup {registeredModule.Objects[i].Fields[j].TypeDef :
                    j \in 1..Len(registeredModule.Objects[i].Fields)}
            \cup UNION {{registeredModule.Objects[i].Functions[j].ReturnType}
                          \cup {registeredModule.Objects[i].Functions[j].Args[k].TypeDef :
                                  k \in 1..Len(registeredModule.Objects[i].Functions[j].Args)} :
                        j \in 1..Len(registeredModule.Objects[i].Functions)} :
           i \in 1..Len(registeredModule.Objects)}

\* the class of the entry assembly a native type name denotes
DeclaresClass(type) == \E class \in DeclaredClasses : class.Type = type
ClassNamed(type) == CHOOSE class \in DeclaredClasses : class.Type = type

\* a reference to a module object names the type by its native name: it is
\* resolved when an object is registered for that class under that name
ObjectResolved(typeDef) ==
    \E i \in 1..Len(registeredModule.Objects) :
        /\ moduleInfos[i].ClrType = ClassNamed(typeDef.Name)
        /\ registeredModule.Objects[i].Name = ClassNamed(typeDef.Name).Name

\* a reference to an enum is resolved when an enum is registered under that name
EnumResolved(typeDef) ==
    \E i \in 1..Len(registeredModule.Enums) :
        /\ enumInfos[i].EnumType.Type = typeDef.Name
        /\ registeredModule.Enums[i].Name = typeDef.Name

\* C28: every reference to a user-defined module object or enum that the
\* type mapper emits names a type definition registered in the same module
\* under the same exposed name, also when the referenced type has a name
\* override and when the referenced module object has no functions or fields
C28_ReferencesResolve ==
    Registered =>
        \A typeDef \in EmittedTypeDefs :
            /\ (typeDef.Kind = "OBJECT" /\ DeclaresClass(typeDef.Name)) => ObjectResolved(typeDef)
            /\ typeDef.Kind = "ENUM" => EnumResolved(typeDef)

\* ---- C30 -------------------------------------------------------------------
\* the functions of a module type that are exposed under a name
FunctionsNamed(info, name) == {j \in 1..Len(info.Functions) : info.Functions[j].Name = name}

\* C30: within one module type the exposed function names are pairwise
\* distinct after case normalization, so that each registered function name
\* dispatches to exactly one native method; this covers overloads, name
\* overrides and names that differ only in the case of the first letter
C30_FunctionNamesDistinct ==
    "discovery" \in phases =>
        \A i \in 1..Len(moduleInfos) :
            \A j \in 1..Len(moduleInfos[i].Functions) :
                FunctionsNamed(moduleInfos[i], moduleInfos[i].Functions[j].Name) = {j}

====
